---- MODULE Spec2Model ----
(***************************************************************************)
(* Model of the spatial core of cook_county_real_estate (package myccao):  *)
(*   - make_point_in_polygon_feature            (utils.py)                 *)
(*   - extend_cc_residential_prop_chars_ohare_noise_zone                   *)
(*                                              (property_characteristics) *)
(*   - split_cc_census_tracts_by_neighborhood   (utils.py)                 *)
(* Geometry lives on an integer lattice.  A point is a pair <<x, y>>, a    *)
(* missing geometry (None) is the empty tuple.  A zone polygon is a closed *)
(* axis-aligned rectangle with lattice corners.  A tract or neighborhood   *)
(* polygon is a set of closed unit cells.                                  *)
(***************************************************************************)
EXTENDS Integers, Sequences, FiniteSets, TLC

VARIABLES
    tagGdf,      \* the caller's point dataset handed to make_point_in_polygon_feature
    tagZones,    \* the zone layer handed to make_point_in_polygon_feature
    tagIn,       \* snapshot of the dataset as it was when the call started
    tagRet,      \* the dataset the call returned (NoFrame before / on error)
    tagPc        \* "ready", "done", or the name of the exception raised

tagVars == <<tagGdf, tagZones, tagIn, tagRet, tagPc>>

VARIABLES
    hullGdf,     \* the caller's dataset handed to the O'Hare noise zone extension
    hullRet,     \* the dataset the call returned (<<>> before / on error)
    hullPc       \* "ready", "done", or the name of the exception raised

hullVars == <<hullGdf, hullRet, hullPc>>

VARIABLES
    ovTracts,    \* the census tract layer read by the overlay engine
    ovNbhds,     \* the clean neighborhood layer read by the overlay engine
    ovRet,       \* the fragments the engine returned (<<>> before / on error)
    ovPc         \* "ready", "done", or the name of the exception raised

ovVars == <<ovTracts, ovNbhds, ovRet, ovPc>>

VARIABLES
    asrtGdf,     \* new_gdf, the joined rows handed to the consistency assertion
    asrtRet,     \* the fragments returned after the assertion (<<>> before / on error)
    asrtPc       \* "ready", "done", or the name of the exception raised

asrtVars == <<asrtGdf, asrtRet, asrtPc>>

VARIABLES
    featGdf,     \* the caller's point dataset handed to a feature function
    featStreets, \* the street layer (cc_streets_gdf) a caller can hand over
    featOp,      \* the feature function called, "none" before the call
    featIn,      \* snapshot of the dataset as it was when the call started
    featRet,     \* the dataset the call returned (NoFrame before / on error)
    featPc       \* "ready", "done", or the name of the exception raised

featVars == <<featGdf, featStreets, featOp, featIn, featRet, featPc>>

VARIABLES
    geoFile,       \* the clean parquet file of the split tracts: does it exist, what it holds
    geoFileBefore, \* the file as it was when the call started
    geoForce       \* the force_remake argument of the call

geoVars == <<geoFile, geoFileBefore, geoForce>>

VARIABLES
    clRaw,       \* the property characteristics records after the column cleaners
    clLocs,      \* the clean property locations records
    clDf,        \* the records as far as the cleaner has brought them
    clStage      \* the cleaner's position, or the name of the exception raised

clVars == <<clRaw, clLocs, clDf, clStage>>

VARIABLES
    catFn,       \* the categorical column cleaner called
    catCol,      \* the column as the caller handed it over
    catRet,      \* the cleaned column (<<>> before / on error)
    catPc        \* "ready", "done", or the name of the exception raised

catVars == <<catFn, catCol, catRet, catPc>>

VARIABLES
    ldRaw,       \* the raw cache file of each dataset: does it exist, what it holds
    ldClean,     \* the clean file of each dataset
    ldRemote,    \* the version of the data the portal serves now
    ldCalls,     \* the number of loader calls made so far
    ldLog,       \* the last call: its arguments, the files before it, what it touched
    ldUnforced,  \* per dataset, the fetches completed by calls without force_repull
    ldRet,       \* the dataset the last call returned (<<>> before / on error)
    ldPc         \* "ready", "done", or the name of the exception raised

ldVars == <<ldRaw, ldClean, ldRemote, ldCalls, ldLog, ldUnforced, ldRet, ldPc>>

\* the components added to the three spatial operations
extVars == <<asrtVars, featVars, geoVars, clVars, catVars, ldVars>>

\* what a step of one component leaves alone
exceptAsrt == <<tagVars, hullVars, ovVars, featVars, geoVars, clVars, catVars, ldVars>>
exceptFeat == <<tagVars, hullVars, ovVars, asrtVars, geoVars, clVars, catVars, ldVars>>
exceptGeo == <<tagVars, hullVars, asrtVars, featVars, clVars, catVars, ldVars>>
exceptCl == <<tagVars, hullVars, ovVars, asrtVars, featVars, geoVars, catVars, ldVars>>
exceptCat == <<tagVars, hullVars, ovVars, asrtVars, featVars, geoVars, clVars, ldVars>>
exceptLd == <<tagVars, hullVars, ovVars, asrtVars, featVars, geoVars, clVars, catVars>>

vars == <<tagVars, hullVars, ovVars, extVars>>

(***************************************************************************)
(* Bounds of the model.                                                    *)
(***************************************************************************)
MaxPts == 2
MaxZones == 2
MaxHullPts == 4
SquareSide == 3
MaxTracts == 3
MaxNbhds == 2
MaxJoined == 2
MaxFeatPts == 2
MaxStreets == 2
MaxClRows == 2
MaxClLocs == 2
MaxCatRows == 2
MaxRetagPts == 2
MaxRetagZones == 1
MaxLdCalls == 2
MaxRemote == 2

(***************************************************************************)
(* Small helpers.                                                          *)
(***************************************************************************)
Range(s) == {s[i] : i \in DOMAIN s}

None == <<>>

NoFrame == [index |-> <<>>, geometry |-> <<>>, cols |-> <<>>]

\* the lattice the point geometries and the polygon corners lie on
Coords == {0, 1, 2}

LatticePoints == Coords \X Coords

(***************************************************************************)
(* Zone polygons: closed rectangles [x1, x2] x [y1, y2] of positive area.  *)
(***************************************************************************)
ZonePolygons ==
    {r \in [x1 : Coords, x2 : Coords, y1 : Coords, y2 : Coords] :
        r.x1 < r.x2 /\ r.y1 < r.y2}

\* shapely: point.intersects(polygon) - the boundary belongs to the polygon
PointIntersectsPolygon(p, r) ==
    /\ p # None
    /\ r.x1 <= p[1] /\ p[1] <= r.x2
    /\ r.y1 <= p[2] /\ p[2] <= r.y2

\* Street geometry is measured in feet.  A street segment is a horizontal
\* LineString from (ax, y) to (bx, y), ax < bx.
FeetPoints ==
    {<<0, 1320>>, <<0, 1584>>, <<660, 660>>, <<2112, 1056>>, <<2640, 0>>, <<2112, 1320>>}

Square(n) == n * n

\* the point of the segment nearest to p
NearestOnSegment(p, seg) ==
    <<IF p[1] < seg.ax THEN seg.ax ELSE IF p[1] > seg.bx THEN seg.bx ELSE p[1], seg.y>>

\* shapely: point.intersects(line.buffer(distance)).  The buffer is a
\* polygon: its sides run parallel to the segment at the distance, its round
\* caps are replaced by chords between vertices 5.625 degrees apart, the
\* first of them on the segment's axis and on its perpendicular.  A point
\* whose coordinates are multiples of 264 is in the polygon iff it is nearer
\* than the distance, or at the distance on the axis or the perpendicular.
PointIntersectsBuffer(p, b) ==
    LET q == NearestOnSegment(p, b.line)
        d2 == Square(p[1] - q[1]) + Square(p[2] - q[2])
    IN  \/ d2 < Square(b.distance)
        \/ d2 = Square(b.distance) /\ (p[1] = q[1] \/ p[2] = q[2])

\* the lattice points a zone polygon covers
Covered(r) ==
    IF "distance" \in DOMAIN r
    THEN {p \in FeetPoints : PointIntersectsBuffer(p, r)}
    ELSE {p \in LatticePoints : PointIntersectsPolygon(p, r)}

\* GeoSeries.unary_union: the point set covered by any geometry of the layer.
\* An empty layer gives the empty geometry (or None, which the spatial index
\* answers the same way: nothing intersects it).
UnaryUnion(layer) == UNION {Covered(r) : r \in layer}

\* (mutation) the query answers the rows that do NOT intersect geom
SindexQueryDisjoint(geoms, geom) ==
    {i - 1 : i \in {j \in DOMAIN geoms : geoms[j] # None /\ geoms[j] \notin geom}}

\* gdf.sindex.query(geom, predicate="intersects"): the integer POSITIONS
\* (0-based) of the rows whose geometry intersects geom; rows without a
\* geometry are not in the index
SindexQueryIntersects(geoms, geom) ==
    {i - 1 : i \in {j \in DOMAIN geoms : geoms[j] # None /\ geoms[j] \in geom}}

\* Series.astype("boolean") of a bool column
AsBoolean(v) == IF v THEN TRUE ELSE FALSE

\* (mutation) the assignment replaces the attribute columns by the new one
SetColumnOnly(frame, col, value) ==
    [frame EXCEPT !.cols = [c \in {col} |-> [i \in DOMAIN frame.index |-> value]]]

\* gdf[col] = value : adds or overwrites a whole column
SetColumn(frame, col, value) ==
    [frame EXCEPT !.cols =
        [c \in (DOMAIN frame.cols) \cup {col} |->
            IF c = col THEN [i \in DOMAIN frame.index |-> value]
                       ELSE frame.cols[c]]]

\* gdf.loc[labels, col] = value : the rows whose index LABEL is in labels
LocMissing(frame, labels) == labels \ Range(frame.index)

LocSet(frame, labels, col, value) ==
    [frame EXCEPT !.cols[col] =
        [i \in DOMAIN frame.index |->
            IF frame.index[i] \in labels THEN value ELSE frame.cols[col][i]]]

(***************************************************************************)
(* Point datasets: a row index, a geometry column and the PIN column.      *)
(* The row index is the default RangeIndex, or what is left of one after   *)
(* the first row was filtered out, or after the rows were sorted backwards.*)
(***************************************************************************)
IndexChoices(n) ==
    {[i \in 1..n |-> i - 1], [i \in 1..n |-> i], [i \in 1..n |-> n - i]}

PointFrames ==
    UNION {
        {[index |-> ix, geometry |-> g, cols |-> [c \in {"PIN"} |-> [i \in 1..n |-> i]]] :
            ix \in IndexChoices(n), g \in [1..n -> LatticePoints \cup {None}]} :
        n \in 0..MaxPts}

\* A zone layer is read through unary_union alone, which depends neither on
\* the order nor on the multiplicity of its rows: it is kept as a set.
ZoneLayers == {z \in SUBSET ZonePolygons : Cardinality(z) <= MaxZones}

ZoneDescrs == {"FEMA_floodway"}

(***************************************************************************)
(* make_point_in_polygon_feature(gdf, zone_gdf, zone_descr)                *)
(* The column is created on the caller's object before the .loc            *)
(* assignment, so a KeyError leaves the all-False column behind.           *)
(***************************************************************************)
TagHits(frame, zones) == SindexQueryIntersects(frame.geometry, UnaryUnion(zones))

TagCore(frame, zones, zone_descr) ==
    LET sindex_query_results == TagHits(frame, zones)
        withCol == SetColumn(frame, zone_descr, FALSE)
        tagged == LocSet(withCol, sindex_query_results, zone_descr, TRUE)
    IN  IF LocMissing(withCol, sindex_query_results) # {}
        THEN [pc |-> "KeyError", gdf |-> withCol, ret |-> NoFrame]
        ELSE LET out == [tagged EXCEPT !.cols[zone_descr] =
                            [i \in DOMAIN tagged.index |->
                                AsBoolean(tagged.cols[zone_descr][i])]]
             IN  [pc |-> "done", gdf |-> out, ret |-> out]

\* a component that takes no part in the run under study
TagIdle ==
    /\ tagGdf = NoFrame /\ tagZones = {} /\ tagIn = NoFrame
    /\ tagRet = NoFrame /\ tagPc = "idle"

HullIdle == hullGdf = <<>> /\ hullRet = <<>> /\ hullPc = "idle"

OvIdle == ovTracts = <<>> /\ ovNbhds = <<>> /\ ovRet = <<>> /\ ovPc = "idle"

AsrtIdle == asrtGdf = <<>> /\ asrtRet = <<>> /\ asrtPc = "idle"

NoStreets == [crs |-> "None", rows |-> <<>>]

FeatIdle ==
    /\ featGdf = NoFrame /\ featStreets = NoStreets /\ featOp = "none"
    /\ featIn = NoFrame /\ featRet = NoFrame /\ featPc = "idle"

NoFile == [exists |-> FALSE, data |-> <<>>]

GeoIdle == geoFile = NoFile /\ geoFileBefore = NoFile /\ geoForce = FALSE

ClIdle == clRaw = <<>> /\ clLocs = <<>> /\ clDf = <<>> /\ clStage = "idle"

CatIdle == catFn = "none" /\ catCol = <<>> /\ catRet = <<>> /\ catPc = "idle"

NoCall ==
    [fn |-> "none", dataset |-> "none", force_reclean |-> FALSE, force_repull |-> FALSE,
     rawBefore |-> NoFile, cleanBefore |-> NoFile,
     fetched |-> FALSE, readRaw |-> FALSE, readClean |-> FALSE]

LdIdle ==
    /\ ldRaw = <<>> /\ ldClean = <<>> /\ ldRemote = 0 /\ ldCalls = 0
    /\ ldLog = NoCall /\ ldUnforced = <<>> /\ ldRet = <<>> /\ ldPc = "idle"

ExtIdle == AsrtIdle /\ FeatIdle /\ GeoIdle /\ ClIdle /\ CatIdle /\ LdIdle

MakePointInPolygonFeature(zone_descr) ==
    /\ tagPc = "ready"
    /\ LET r == TagCore(tagGdf, tagZones, zone_descr)
       IN  /\ tagPc' = r.pc
           /\ tagGdf' = r.gdf
           /\ tagRet' = r.ret
    /\ UNCHANGED <<tagZones, tagIn, hullVars, ovVars, extVars>>

TagInit ==
    /\ HullIdle /\ OvIdle /\ ExtIdle
    /\ tagGdf \in PointFrames
    /\ tagZones \in ZoneLayers
    /\ tagIn = tagGdf
    /\ tagRet = NoFrame
    /\ tagPc = "ready"

TagNext == \E zone_descr \in ZoneDescrs : MakePointInPolygonFeature(zone_descr)

SpecTag == TagInit /\ [][TagNext]_vars

(***************************************************************************)
(* Claims about make_point_in_polygon_feature.                             *)
(***************************************************************************)
TagCol == "FEMA_floodway"

\* the point of row i intersects at least one polygon of the zone layer
InZoneUnion(frame, zones, i) ==
    \E r \in zones : PointIntersectsPolygon(frame.geometry[i], r)

IsRangeIndex(frame) == \A i \in DOMAIN frame.index : frame.index[i] = i - 1

\* C1: for every point dataset and every zone layer the call returns the
\* dataset with the membership column true for exactly the points whose
\* geometry intersects the union of the zone geometries, false for the rest.
C1_TaggedIffIntersects ==
    tagPc # "ready" =>
        /\ tagPc = "done"
        /\ DOMAIN tagRet.index = DOMAIN tagIn.index
        /\ TagCol \in DOMAIN tagRet.cols
        /\ \A i \in DOMAIN tagIn.index :
              tagRet.cols[TagCol][i] = InZoneUnion(tagIn, tagZones, i)

\* C6: with a zone layer of zero polygons the call completes without error
\* and the membership column is false for all N points, whatever N and
\* whatever the row labels.
C6_EmptyLayerAllFalse ==
    (tagPc # "ready" /\ tagZones = {}) =>
        /\ tagPc = "done"
        /\ Len(tagRet.index) = Len(tagIn.index)
        /\ TagCol \in DOMAIN tagRet.cols
        /\ \A i \in DOMAIN tagIn.index : tagRet.cols[TagCol][i] = FALSE

C6_Witness ==
    /\ tagPc = "done"
    /\ tagZones = {}
    /\ Len(tagIn.index) = MaxPts
    /\ ~IsRangeIndex(tagIn)
    /\ \A i \in DOMAIN tagIn.index : tagRet.cols[TagCol][i] = FALSE

(***************************************************************************)
(* extend_cc_residential_prop_chars_ohare_noise_zone(gdf)                  *)
(* A row of the dataset is [geometry, noise]; noise is the nullable        *)
(* boolean O'Hare Noise: "T", "F" or "NA".                                 *)
(***************************************************************************)
Cross(a, b, c) == (b[1] - a[1]) * (c[2] - a[2]) - (b[2] - a[2]) * (c[1] - a[1])

LexLeq(a, b) == a[1] < b[1] \/ (a[1] = b[1] /\ a[2] <= b[2])

Collinear(S) == \A a, b, c \in S : Cross(a, b, c) = 0

Between(lo, v, hi) == (lo <= v /\ v <= hi) \/ (hi <= v /\ v <= lo)

\* gdf.loc[(gdf["O'Hare Noise"])]: a null in a boolean mask selects nothing
NoiseRows(gdf) == {i \in DOMAIN gdf : gdf[i].noise = "T"}

\* ohare_noise_gdf["geometry"].unary_union: the distinct points (a MultiPoint)
NoiseUnion(gdf) == {gdf[i].geometry : i \in NoiseRows(gdf)}

\* (mutation) the template row's own geometry is kept as the zone
ConvexHullFirstPoint(S) ==
    [kind |-> "Point", pts |-> {CHOOSE a \in S : \A t \in S : LexLeq(a, t)}]

\* .convex_hull of a non-empty MultiPoint: a Point, a LineString or a Polygon
ConvexHull(S) ==
    IF Cardinality(S) = 1
    THEN [kind |-> "Point", pts |-> S]
    ELSE IF Collinear(S)
    THEN [kind |-> "LineString",
          pts |-> {CHOOSE a \in S : \A t \in S : LexLeq(a, t),
                   CHOOSE b \in S : \A t \in S : LexLeq(t, b)}]
    ELSE [kind |-> "Polygon", pts |-> S]

\* (mutation) the envelope (bounding box) of the points instead of their hull
WithinEnvelope(p, hull) ==
    /\ \E a \in hull.pts : a[1] <= p[1]
    /\ \E a \in hull.pts : a[1] >= p[1]
    /\ \E a \in hull.pts : a[2] <= p[2]
    /\ \E a \in hull.pts : a[2] >= p[2]

\* shapely p.within(hull): p lies in the hull and in its interior; the
\* boundary of a LineString is its two end points, that of a Polygon its ring,
\* a Point has none
Within(p, hull) ==
    CASE hull.kind = "Point" -> p \in hull.pts
      [] hull.kind = "LineString" ->
            \E a, b \in hull.pts :
                /\ a # b
                /\ Cross(a, b, p) = 0
                /\ Between(a[1], p[1], b[1]) /\ Between(a[2], p[2], b[2])
                /\ p # a /\ p # b
      [] hull.kind = "Polygon" ->
            \A a, b \in hull.pts :
                (a # b /\ \A t \in hull.pts : Cross(a, b, t) >= 0)
                    => Cross(a, b, p) > 0

\* (mutation) only rows that are False are relabelled; null rows are skipped
SetNoiseTrueSkipNull(gdf, mask) ==
    [i \in DOMAIN gdf |->
        IF i \in mask /\ gdf[i].noise = "F" THEN [gdf[i] EXCEPT !.noise = "T"]
        ELSE gdf[i]]

\* (mutation) the column is replaced by the mask
SetNoiseToMask(gdf, mask) ==
    [i \in DOMAIN gdf |->
        [gdf[i] EXCEPT !.noise = IF i \in mask THEN "T" ELSE "F"]]

\* gdf.loc[ohare_noise_zone_mask, "O'Hare Noise"] = True
SetNoiseTrue(gdf, mask) ==
    [i \in DOMAIN gdf |->
        IF i \in mask THEN [gdf[i] EXCEPT !.noise = "T"] ELSE gdf[i]]

\* gdf.within(ohare_noise_zone.loc[0, "geometry"])
NoiseZoneMask(gdf, hull) == {i \in DOMAIN gdf : Within(gdf[i].geometry, hull)}

\* With no row labelled True the union is empty: unary_union is None and
\* .convex_hull raises AttributeError, or it is an empty collection and
\* ohare_noise_zone.loc[0, "geometry"] raises KeyError on the zero-row frame.
EmptyUnionCrashes == {"AttributeError", "KeyError"}

ExtendOhareNoiseZone ==
    /\ hullPc = "ready"
    /\ IF NoiseRows(hullGdf) = {}
       THEN /\ hullPc' \in EmptyUnionCrashes
            /\ hullRet' = <<>>
       ELSE /\ hullPc' = "done"
            /\ hullRet' = SetNoiseTrue(hullGdf,
                              NoiseZoneMask(hullGdf, ConvexHull(NoiseUnion(hullGdf))))
    /\ UNCHANGED <<hullGdf, tagVars, ovVars, extVars>>

(***************************************************************************)
(* Inputs of the noise zone extension.  The function reads its rows only   *)
(* through boolean masks and the union of the True points, so row order    *)
(* carries no information: datasets are drawn in one canonical row order.  *)
(***************************************************************************)
NoiseRank(v) == CASE v = "F" -> 0 [] v = "NA" -> 1 [] v = "T" -> 2

RowLeq(r, q) ==
    \/ r.geometry # q.geometry /\ LexLeq(r.geometry, q.geometry)
    \/ r.geometry = q.geometry /\ NoiseRank(r.noise) <= NoiseRank(q.noise)

RECURSIVE SortedFrames(_, _)
SortedFrames(Rows, n) ==
    IF n = 0 THEN {<<>>}
    ELSE UNION {{Append(f, r) : r \in {q \in Rows : f = <<>> \/ RowLeq(f[Len(f)], q)}} :
                    f \in SortedFrames(Rows, n - 1)}

HullRows == [geometry : LatticePoints, noise : {"T", "F", "NA"}]

\* The square of the 5-point scenario: two rows marked True on opposite
\* corners, three rows not marked True strictly inside the square.
SquareCorners ==
    {<<<<0, 0>>, <<SquareSide, SquareSide>>>>, <<<<0, SquareSide>>, <<SquareSide, 0>>>>}

SquareInner == (1..(SquareSide - 1)) \X (1..(SquareSide - 1))

SquareFrames ==
    {<<[geometry |-> c[1], noise |-> "T"], [geometry |-> c[2], noise |-> "T"]>> \o f :
        c \in SquareCorners,
        f \in SortedFrames([geometry : SquareInner, noise : {"F", "NA"}], 3)}

\* The caller's dataset grows row by row (in the canonical order) until the
\* extension is called on it.
LoadHullRow(r) ==
    /\ hullPc = "ready"
    /\ Len(hullGdf) < MaxHullPts
    /\ \A i \in DOMAIN hullGdf : hullGdf[i].geometry \in LatticePoints
    /\ IF hullGdf = <<>> THEN TRUE ELSE RowLeq(hullGdf[Len(hullGdf)], r)
    /\ hullGdf' = Append(hullGdf, r)
    /\ UNCHANGED <<hullRet, hullPc, tagVars, ovVars, extVars>>

HullInit ==
    /\ TagIdle /\ OvIdle /\ ExtIdle
    /\ hullGdf \in {<<>>} \cup SquareFrames
    /\ hullRet = <<>>
    /\ hullPc = "ready"

HullNext ==
    \/ \E r \in HullRows : LoadHullRow(r)
    \/ ExtendOhareNoiseZone

SpecHull == HullInit /\ [][HullNext]_vars

(***************************************************************************)
(* Claims about the noise zone extension.  Membership in the convex hull   *)
(* is stated here from the definition of a convex combination              *)
(* (Caratheodory: a point of the hull lies in a triangle or on a segment   *)
(* spanned by points of the set), independently of ConvexHull and Within.  *)
(***************************************************************************)
TruePoints(f) == {f[i].geometry : i \in {j \in DOMAIN f : f[j].noise = "T"}}

OnSegment(p, a, b) ==
    /\ Cross(a, b, p) = 0
    /\ Between(a[1], p[1], b[1]) /\ Between(a[2], p[2], b[2])

InTriangle(p, a, b, c) ==
    LET d1 == Cross(a, b, p)
        d2 == Cross(b, c, p)
        d3 == Cross(c, a, p)
    IN  (d1 >= 0 /\ d2 >= 0 /\ d3 >= 0) \/ (d1 <= 0 /\ d2 <= 0 /\ d3 <= 0)

InClosedHull(p, S) ==
    \E a, b, c \in S :
        IF Cross(a, b, c) = 0
        THEN OnSegment(p, a, b) \/ OnSegment(p, b, c) \/ OnSegment(p, a, c)
        ELSE InTriangle(p, a, b, c)

\* a line through p and another point of S leaves all of S on one side
OnHullBoundary(p, S) ==
    \E q \in S \ {p} :
        \/ \A t \in S : Cross(p, q, t) >= 0
        \/ \A t \in S : Cross(p, q, t) <= 0

\* p lies within the hull of S in the sense of the "within" predicate: in
\* the hull and not on its boundary (the end points of a segment, the ring
\* of a polygon)
LiesWithinHull(p, S) ==
    IF Cardinality(S) = 1 THEN p \in S
    ELSE IF \A a, b, c \in S : Cross(a, b, c) = 0
    THEN \E a, b \in S : OnSegment(p, a, b) /\ p # a /\ p # b
    ELSE InClosedHull(p, S) /\ ~OnHullBoundary(p, S)

\* C2: after the extension every point labelled true either was true in the
\* input or lies within the convex hull of the input's true points; no point
\* outside that hull is changed to true.
C2_HullContainment ==
    hullPc = "done" =>
        /\ Len(hullRet) = Len(hullGdf)
        /\ \A i \in DOMAIN hullGdf :
              hullRet[i].noise = "T" =>
                  \/ hullGdf[i].noise = "T"
                  \/ InClosedHull(hullGdf[i].geometry, TruePoints(hullGdf))

C2_Witness ==
    /\ hullPc = "done"
    /\ Cardinality(TruePoints(hullGdf)) >= 2
    /\ \E i \in DOMAIN hullGdf : hullGdf[i].noise # "T" /\ hullRet[i].noise = "T"
    /\ \E j \in DOMAIN hullGdf :
          /\ hullRet[j].noise # "T"
          /\ ~InClosedHull(hullGdf[j].geometry, TruePoints(hullGdf))

\* C3: the extension sets the label true for every point of the dataset that
\* lies within the convex hull of the currently-true points, points already
\* true included: no point within the hull is left false or null.
C3_HullFilled ==
    hullPc = "done" =>
        \A i \in DOMAIN hullGdf :
            LiesWithinHull(hullGdf[i].geometry, TruePoints(hullGdf))
                => hullRet[i].noise = "T"

C3_Witness ==
    /\ hullPc = "done"
    /\ Cardinality(TruePoints(hullGdf)) >= 3
    /\ \E i, k \in DOMAIN hullGdf :
          /\ LiesWithinHull(hullGdf[i].geometry, TruePoints(hullGdf))
          /\ LiesWithinHull(hullGdf[k].geometry, TruePoints(hullGdf))
          /\ hullGdf[i].noise # "T" /\ hullRet[i].noise = "T"
          /\ hullGdf[k].noise = "T" /\ hullRet[k].noise = "T"

\* The 5-point scenario: rows 1 and 2 are marked and sit on opposite corners
\* of the square, rows 3 to 5 are not marked and lie inside the square.
IsSquareScenario(f) ==
    /\ Len(f) = 5
    /\ f[1].noise = "T" /\ f[2].noise = "T"
    /\ <<f[1].geometry, f[2].geometry>> \in SquareCorners
    /\ \A i \in 3..5 : f[i].noise # "T" /\ f[i].geometry \in SquareInner

\* the diagonal of the square that joins the two marked corners
OnMarkedDiagonal(p, f) ==
    IF f[1].geometry[2] = f[1].geometry[1]
    THEN p[1] = p[2]
    ELSE p[1] + p[2] = SquareSide

\* C4 (as stated): in the 5-point scenario the extension marks all 5 points.
C4_AllFiveMarked ==
    (hullPc \notin {"ready", "idle"} /\ IsSquareScenario(hullGdf)) =>
        /\ hullPc = "done"
        /\ \A i \in 1..5 : hullRet[i].noise = "T"

\* C4 (amended): in the 5-point scenario the extension keeps the two corners
\* marked and marks exactly those unmarked points that lie on the diagonal
\* joining the two marked corners; an unmarked point off that diagonal keeps
\* its label.
C4_DiagonalOnly ==
    (hullPc \notin {"ready", "idle"} /\ IsSquareScenario(hullGdf)) =>
        /\ hullPc = "done"
        /\ hullRet[1].noise = "T" /\ hullRet[2].noise = "T"
        /\ \A i \in 3..5 :
              IF OnMarkedDiagonal(hullGdf[i].geometry, hullGdf)
              THEN hullRet[i].noise = "T"
              ELSE hullRet[i].noise = hullGdf[i].noise

C4_Witness ==
    /\ hullPc = "done"
    /\ IsSquareScenario(hullGdf)
    /\ \E i, j \in 3..5 :
          /\ OnMarkedDiagonal(hullGdf[i].geometry, hullGdf) /\ hullRet[i].noise = "T"
          /\ ~OnMarkedDiagonal(hullGdf[j].geometry, hullGdf) /\ hullRet[j].noise # "T"

\* C5: when no point of the input is labelled true the extension fails with
\* an explicit error: it neither returns a dataset nor crashes as a side
\* effect of operating on the empty geometry.
C5_FailsExplicitly ==
    (hullPc \notin {"ready", "idle"} /\ TruePoints(hullGdf) = {}) =>
        /\ hullPc # "done"
        /\ hullPc \notin EmptyUnionCrashes

(***************************************************************************)
(* split_cc_census_tracts_by_neighborhood()                                *)
(* Polygons of the two layers are sets of closed unit cells <<x, y>>.      *)
(***************************************************************************)
RECURSIVE FlattenSeq(_)
FlattenSeq(ss) == IF ss = <<>> THEN <<>> ELSE Head(ss) \o FlattenSeq(Tail(ss))

Abs(n) == IF n < 0 THEN -n ELSE n

Rect(x0, x1, y0, y1) == (x0..x1) \X (y0..y1)

\* (mutation) predicate="within": the neighborhood lies inside the tract
PolygonWithin(A, B) == A \subseteq B

\* predicate="intersects" on closed polygons: they share a cell, an edge or
\* a corner
PolygonsIntersect(A, B) ==
    \E a \in A, b \in B : Abs(a[1] - b[1]) <= 1 /\ Abs(a[2] - b[2]) <= 1

\* .str.upper()
UpperChar(c) ==
    CASE c = "a" -> "A" [] c = "k" -> "K" [] c = "e" -> "E" [] c = "l" -> "L"
      [] OTHER -> c

StrUpper(str) == [i \in DOMAIN str |-> UpperChar(str[i])]

\* (mutation) the sign of the string is lost
AsFloatUnsigned(str) == [float |-> str.digits]

\* .astype(float) of a signed decimal string such as "+41" or "-87"
AsFloat(str) == [float |-> IF str.sign = "-" THEN -str.digits ELSE str.digits]

\* drop_duplicates(ignore_index=True): the first of identical rows is kept
RECURSIVE DropDuplicates(_)
DropDuplicates(rows) ==
    IF rows = <<>> THEN <<>>
    ELSE LET front == DropDuplicates(SubSeq(rows, 1, Len(rows) - 1))
             last == rows[Len(rows)]
         IN  IF last \in Range(front) THEN front ELSE Append(front, last)

\* lines 406-415: the neighborhood layer as the engine uses it
PrepareNbhds(nbhds) ==
    LET dedup == DropDuplicates(nbhds)
    IN  [i \in DOMAIN dedup |->
            [nbhd |-> dedup[i].nbhd,
             town_nbhd |-> dedup[i].town_nbhd,
             township_n |-> StrUpper(dedup[i].township_n),
             geometry |-> dedup[i].geometry]]

\* AWATER10.max()
MaxWater(tracts) ==
    CHOOSE w \in {tracts[i].AWATER10 : i \in DOMAIN tracts} :
        \A i \in DOMAIN tracts : tracts[i].AWATER10 <= w

\* (mutation) no tract is filtered out
KeepAllTracts(tracts) == tracts

\* (mutation) of the tracts tied at the maximum only the first is removed
WaterFilterFirstMaxOnly(tracts) ==
    IF tracts = <<>> THEN <<>>
    ELSE LET first == CHOOSE i \in DOMAIN tracts :
                          /\ tracts[i].AWATER10 = MaxWater(tracts)
                          /\ \A j \in 1..(i - 1) : tracts[j].AWATER10 # MaxWater(tracts)
         IN  SubSeq(tracts, 1, first - 1) \o SubSeq(tracts, first + 1, Len(tracts))

\* lines 419-425: the tracts whose water area is not the maximum, renumbered
WaterFilter(tracts) ==
    IF tracts = <<>> THEN <<>>
    ELSE SelectSeq(tracts, LAMBDA t : t.AWATER10 # MaxWater(tracts))

\* cc_nbhd_gdf.sjoin(tract_geom, how="inner", predicate="intersects"): the
\* neighborhood rows that intersect the tract, each carrying the tract's
\* columns next to its own
Sjoin(cc_nbhd, t) ==
    LET hits == SelectSeq(cc_nbhd, LAMBDA n : PolygonsIntersect(n.geometry, t.geometry))
    IN  [i \in DOMAIN hits |->
            [nbhd |-> hits[i].nbhd,
             town_nbhd |-> hits[i].town_nbhd,
             township_n |-> hits[i].township_n,
             geometry |-> hits[i].geometry,
             STATEFP10 |-> t.STATEFP10,
             COUNTYFP10 |-> t.COUNTYFP10,
             TRACTCE10 |-> t.TRACTCE10,
             GEOID10 |-> t.GEOID10,
             NAME10 |-> t.NAME10,
             ALAND10 |-> t.ALAND10,
             INTPTLAT10 |-> t.INTPTLAT10,
             INTPTLON10 |-> t.INTPTLON10]]

\* tract_geom.overlay(nbhd_geom, how="intersection"): one row when the two
\* polygons share area, none otherwise; columns present on both sides get
\* the suffixes _1 (tract) and _2 (joined neighborhood row)
Overlay(t, n) ==
    LET shared == t.geometry \cap n.geometry
    IN  IF shared = {} THEN <<>>
        ELSE <<[STATEFP10_1 |-> t.STATEFP10, STATEFP10_2 |-> n.STATEFP10,
                COUNTYFP10_1 |-> t.COUNTYFP10, COUNTYFP10_2 |-> n.COUNTYFP10,
                TRACTCE10_1 |-> t.TRACTCE10, TRACTCE10_2 |-> n.TRACTCE10,
                GEOID10_1 |-> t.GEOID10, GEOID10_2 |-> n.GEOID10,
                NAME10_1 |-> t.NAME10, NAME10_2 |-> n.NAME10,
                ALAND10_1 |-> t.ALAND10, ALAND10_2 |-> n.ALAND10,
                INTPTLAT10_1 |-> t.INTPTLAT10, INTPTLAT10_2 |-> n.INTPTLAT10,
                INTPTLON10_1 |-> t.INTPTLON10, INTPTLON10_2 |-> n.INTPTLON10,
                nbhd |-> n.nbhd, town_nbhd |-> n.town_nbhd,
                township_n |-> n.township_n,
                geometry |-> shared]>>

\* lines 428-440, one pass of the outer loop: pd.concat of an empty list
\* raises ValueError
SplitOneTract(cc_nbhd, t) ==
    LET intersecting_tracts == Sjoin(cc_nbhd, t)
    IN  IF intersecting_tracts = <<>>
        THEN [raised |-> TRUE, rows |-> <<>>]
        ELSE [raised |-> FALSE,
              rows |-> FlattenSeq([i \in DOMAIN intersecting_tracts |->
                                      Overlay(t, intersecting_tracts[i])])]

\* (mutation) only the tract codes are compared
CopiesAgreeCodesOnly(row) ==
    /\ row.TRACTCE10_1 = row.TRACTCE10_2
    /\ row.GEOID10_1 = row.GEOID10_2
    /\ row.STATEFP10_1 = row.STATEFP10_2
    /\ row.COUNTYFP10_1 = row.COUNTYFP10_2

\* lines 444-459: the two copies of every tract column agree on every row
CopiesAgree(row) ==
    /\ row.TRACTCE10_1 = row.TRACTCE10_2
    /\ row.GEOID10_1 = row.GEOID10_2
    /\ row.NAME10_1 = row.NAME10_2
    /\ row.ALAND10_1 = row.ALAND10_2
    /\ row.INTPTLAT10_1 = row.INTPTLAT10_2
    /\ row.INTPTLON10_1 = row.INTPTLON10_2
    /\ row.STATEFP10_1 = row.STATEFP10_2
    /\ row.COUNTYFP10_1 = row.COUNTYFP10_2

\* geometry.representative_point(): a point inside the fragment
RepresentativePoint(cells) == CHOOSE c \in cells : \A d \in cells : LexLeq(c, d)

\* lines 460-489: the _2 columns are dropped, the _1 suffix removed, the
\* area columns dropped, the coordinates cast to float
FinishFragment(row) ==
    [STATEFP10 |-> row.STATEFP10_1,
     COUNTYFP10 |-> row.COUNTYFP10_1,
     TRACTCE10 |-> row.TRACTCE10_1,
     GEOID10 |-> row.GEOID10_1,
     NAME10 |-> row.NAME10_1,
     INTPTLAT10 |-> AsFloat(row.INTPTLAT10_1),
     INTPTLON10 |-> AsFloat(row.INTPTLON10_1),
     nbhd |-> row.nbhd,
     town_nbhd |-> row.town_nbhd,
     township_n |-> row.township_n,
     geometry |-> row.geometry,
     rep_point |-> RepresentativePoint(row.geometry)]

\* lines 444-490: the assertion, then the finishing of every row
AssertAndFinish(new_gdf) ==
    IF \E i \in DOMAIN new_gdf : ~CopiesAgree(new_gdf[i])
    THEN [pc |-> "AssertionError", ret |-> <<>>]
    ELSE [pc |-> "done",
          ret |-> [i \in DOMAIN new_gdf |-> FinishFragment(new_gdf[i])]]

SplitCore(tracts, nbhds) ==
    LET cc_nbhd_gdf == PrepareNbhds(nbhds)
        census_tract10_gdf == WaterFilter(tracts)
        all_split_tracts ==
            [i \in DOMAIN census_tract10_gdf |->
                SplitOneTract(cc_nbhd_gdf, census_tract10_gdf[i])]
        new_gdf == FlattenSeq([i \in DOMAIN all_split_tracts |-> all_split_tracts[i].rows])
    IN  IF \E i \in DOMAIN all_split_tracts : all_split_tracts[i].raised
        THEN [pc |-> "ValueError", ret |-> <<>>]
        ELSE IF all_split_tracts = <<>>
        THEN [pc |-> "ValueError", ret |-> <<>>]
        ELSE AssertAndFinish(new_gdf)

SplitCcCensusTractsByNeighborhood ==
    /\ ovPc = "ready"
    /\ LET r == SplitCore(ovTracts, ovNbhds)
       IN  ovPc' = r.pc /\ ovRet' = r.ret
    /\ UNCHANGED <<ovTracts, ovNbhds, tagVars, hullVars, extVars>>

(***************************************************************************)
(* Inputs of the overlay engine.  Tracts are 2x2 blocks of cells, two of   *)
(* them adjacent; neighborhoods are rectangles of cells.  The engine's     *)
(* result does not depend on row order beyond the order of its output      *)
(* rows, so each layer is loaded in one canonical row order.  A tract's    *)
(* identifiers are those of its row in the input layer.                    *)
(***************************************************************************)
TractGeoms == {Rect(0, 1, 0, 1), Rect(2, 3, 0, 1), Rect(4, 5, 0, 1)}

WaterAreas == {0, 1}

NbhdGeoms ==
    {Rect(xr[1], xr[2], yr[1], yr[2]) :
        xr \in {<<0, 1>>, <<0, 3>>, <<4, 5>>},
        yr \in {<<0, 0>>, <<1, 1>>, <<0, 1>>}}

NbhdAttrs ==
    {[nbhd |-> "010", town_nbhd |-> "77010", township_n |-> <<"L", "a", "k", "e">>],
     [nbhd |-> "020", town_nbhd |-> "70020", township_n |-> <<"L", "A", "K", "E">>]}

MinOf(S) == CHOOSE m \in S : \A v \in S : m <= v

MaxOf(S) == CHOOSE m \in S : \A v \in S : v <= m

GeomKey(cells) ==
    <<MinOf({c[1] : c \in cells}), MaxOf({c[1] : c \in cells}),
      MinOf({c[2] : c \in cells}), MaxOf({c[2] : c \in cells})>>

KeyLeq(a, b) ==
    \/ a = b
    \/ \E k \in DOMAIN a : a[k] < b[k] /\ \A j \in 1..(k - 1) : a[j] = b[j]

TractKey(t) == GeomKey(t.geometry) \o <<t.AWATER10>>

NbhdKey(n) == GeomKey(n.geometry) \o <<IF n.nbhd = "010" THEN 0 ELSE 1>>

\* the tract of row i: its codes, its area figures, its interior point as
\* signed decimal strings, its polygon
TractRow(i, geom, water) ==
    [STATEFP10 |-> "17",
     COUNTYFP10 |-> "031",
     TRACTCE10 |-> i,
     GEOID10 |-> <<"17", "031", i>>,
     NAME10 |-> <<"Tract", i>>,
     ALAND10 |-> Cardinality(geom) - water,
     AWATER10 |-> water,
     INTPTLAT10 |-> [sign |-> "+", digits |-> 41 + MinOf({c[2] : c \in geom})],
     INTPTLON10 |-> [sign |-> "-", digits |-> 87 + MinOf({c[1] : c \in geom})],
     geometry |-> geom]

NbhdRow(attrs, geom) ==
    [nbhd |-> attrs.nbhd, town_nbhd |-> attrs.town_nbhd,
     township_n |-> attrs.township_n, geometry |-> geom]

LoadTract(geom, water) ==
    /\ ovPc = "ready"
    /\ Len(ovTracts) < MaxTracts
    /\ LET t == TractRow(Len(ovTracts) + 1, geom, water)
       IN  /\ IF ovTracts = <<>> THEN TRUE
              ELSE KeyLeq(TractKey(ovTracts[Len(ovTracts)]), TractKey(t))
           /\ ovTracts' = Append(ovTracts, t)
    /\ UNCHANGED <<ovNbhds, ovRet, ovPc, tagVars, hullVars, extVars>>

LoadNbhd(attrs, geom) ==
    /\ ovPc = "ready"
    /\ Len(ovNbhds) < MaxNbhds
    /\ LET n == NbhdRow(attrs, geom)
       IN  /\ IF ovNbhds = <<>> THEN TRUE
              ELSE KeyLeq(NbhdKey(ovNbhds[Len(ovNbhds)]), NbhdKey(n))
           /\ ovNbhds' = Append(ovNbhds, n)
    /\ UNCHANGED <<ovTracts, ovRet, ovPc, tagVars, hullVars, extVars>>

OvInit ==
    /\ TagIdle /\ HullIdle /\ ExtIdle
    /\ ovTracts = <<>> /\ ovNbhds = <<>> /\ ovRet = <<>> /\ ovPc = "ready"

OvNext ==
    \/ \E geom \in TractGeoms, water \in WaterAreas : LoadTract(geom, water)
    \/ \E attrs \in NbhdAttrs, geom \in NbhdGeoms : LoadNbhd(attrs, geom)
    \/ SplitCcCensusTractsByNeighborhood

SpecOverlay == OvInit /\ [][OvNext]_vars

(***************************************************************************)
(* Claims about the overlay engine.                                        *)
(***************************************************************************)
\* a tract survives the water filter iff some tract has more water
SurvivesWaterFilter(i) ==
    \E j \in DOMAIN ovTracts : ovTracts[j].AWATER10 > ovTracts[i].AWATER10

NbhdCoverage == UNION {ovNbhds[j].geometry : j \in DOMAIN ovNbhds}

FragmentsOf(i) ==
    {k \in DOMAIN ovRet : ovRet[k].GEOID10 = ovTracts[i].GEOID10}

\* the value of a signed decimal string, as a float
SignedValue(str) ==
    [float |-> CASE str.sign = "+" -> str.digits [] str.sign = "-" -> 0 - str.digits]

\* u is the upper-case spelling of name
IsUpperCaseOf(u, name) ==
    /\ Len(u) = Len(name)
    /\ \A i \in DOMAIN name :
          \/ u[i] = name[i] /\ name[i] \notin {"a", "k", "e", "l"}
          \/ <<name[i], u[i]>> \in {<<"a", "A">>, <<"k", "K">>, <<"e", "E">>, <<"l", "L">>}

\* the identifiers of a fragment name one tract only
NamesOneTract(f) ==
    \A i \in DOMAIN ovTracts :
        /\ (f.GEOID10 = ovTracts[i].GEOID10) <=> (f.TRACTCE10 = ovTracts[i].TRACTCE10)
        /\ (f.GEOID10 = ovTracts[i].GEOID10) <=> (f.NAME10 = ovTracts[i].NAME10)

\* C7 (as stated): every fragment is the intersection of one tract and one
\* neighborhood and carries exactly that tract's STATEFP10, COUNTYFP10,
\* TRACTCE10, GEOID10, NAME10, INTPTLAT10, INTPTLON10 and exactly that
\* neighborhood's nbhd, town_nbhd, township_n; no fragment mixes identifiers
\* of two tracts.
C7_IdentifiersExact ==
    ovPc = "done" =>
        \A k \in DOMAIN ovRet :
            /\ NamesOneTract(ovRet[k])
            /\ \E i \in DOMAIN ovTracts, j \in DOMAIN ovNbhds :
                  LET f == ovRet[k]
                      t == ovTracts[i]
                      n == ovNbhds[j]
                  IN  /\ f.geometry = t.geometry \cap n.geometry
                      /\ f.STATEFP10 = t.STATEFP10
                      /\ f.COUNTYFP10 = t.COUNTYFP10
                      /\ f.TRACTCE10 = t.TRACTCE10
                      /\ f.GEOID10 = t.GEOID10
                      /\ f.NAME10 = t.NAME10
                      /\ f.INTPTLAT10 = t.INTPTLAT10
                      /\ f.INTPTLON10 = t.INTPTLON10
                      /\ f.nbhd = n.nbhd
                      /\ f.town_nbhd = n.town_nbhd
                      /\ f.township_n = n.township_n

\* C7 (amended): every fragment is the intersection of one tract and one
\* neighborhood; it carries that tract's STATEFP10, COUNTYFP10, TRACTCE10,
\* GEOID10 and NAME10 unchanged and its INTPTLAT10, INTPTLON10 converted
\* from string to float, and that neighborhood's nbhd and town_nbhd
\* unchanged and its township_n in upper case; no fragment mixes
\* identifiers of two tracts.
C7_IdentifiersConverted ==
    ovPc = "done" =>
        \A k \in DOMAIN ovRet :
            /\ NamesOneTract(ovRet[k])
            /\ \E i \in DOMAIN ovTracts, j \in DOMAIN ovNbhds :
                  LET f == ovRet[k]
                      t == ovTracts[i]
                      n == ovNbhds[j]
                  IN  /\ f.geometry = t.geometry \cap n.geometry
                      /\ f.STATEFP10 = t.STATEFP10
                      /\ f.COUNTYFP10 = t.COUNTYFP10
                      /\ f.TRACTCE10 = t.TRACTCE10
                      /\ f.GEOID10 = t.GEOID10
                      /\ f.NAME10 = t.NAME10
                      /\ f.INTPTLAT10 = SignedValue(t.INTPTLAT10)
                      /\ f.INTPTLON10 = SignedValue(t.INTPTLON10)
                      /\ f.nbhd = n.nbhd
                      /\ f.town_nbhd = n.town_nbhd
                      /\ IsUpperCaseOf(f.township_n, n.township_n)

C7_Witness ==
    /\ ovPc = "done"
    /\ \E k, l \in DOMAIN ovRet :
          /\ ovRet[k].GEOID10 # ovRet[l].GEOID10
          /\ ovRet[k].nbhd # ovRet[l].nbhd
          /\ ovRet[k].township_n = <<"L", "A", "K", "E">>
          /\ \E j \in DOMAIN ovNbhds :
                ovNbhds[j].nbhd = ovRet[k].nbhd /\ ovNbhds[j].township_n # ovRet[k].township_n

\* C8: for every input tract that survives the water filter the union of its
\* fragments equals the tract intersected with the union of all neighborhood
\* polygons.
C8_FragmentsCoverTract ==
    ovPc = "done" =>
        \A i \in DOMAIN ovTracts :
            SurvivesWaterFilter(i) =>
                UNION {ovRet[k].geometry : k \in FragmentsOf(i)}
                    = ovTracts[i].geometry \cap NbhdCoverage

C8_Witness ==
    /\ ovPc = "done"
    /\ \E i \in DOMAIN ovTracts :
          /\ SurvivesWaterFilter(i)
          /\ Cardinality(FragmentsOf(i)) >= 2
          /\ ovTracts[i].geometry \cap NbhdCoverage # ovTracts[i].geometry
          /\ \E j \in DOMAIN ovNbhds :
                ~(ovNbhds[j].geometry \subseteq ovTracts[i].geometry)
                /\ ovNbhds[j].geometry \cap ovTracts[i].geometry # {}

\* C9: no two distinct fragments of the same tract overlap with nonzero
\* area, whatever neighborhood layer the engine accepted.
C9_NoOverlapWithinTract ==
    ovPc = "done" =>
        \A k, l \in DOMAIN ovRet :
            (k # l /\ ovRet[k].GEOID10 = ovRet[l].GEOID10)
                => ovRet[k].geometry \cap ovRet[l].geometry = {}

\* The scenario of C10: T1 and T2 cover adjacent 2x2 squares, the one
\* neighborhood is a 1x4 rectangle straddling both.
IsStraddlingNbhdLayer ==
    /\ Len(ovNbhds) = 1
    /\ ovNbhds[1].geometry \in {Rect(0, 3, 0, 0), Rect(0, 3, 1, 1)}

IsT1T2(i, j) ==
    /\ ovTracts[i].geometry = Rect(0, 1, 0, 1)
    /\ ovTracts[j].geometry = Rect(2, 3, 0, 1)

\* exactly 2 fragments, each a 1x2 rectangle, one of T1 and one of T2
TwoFragments(i, j) ==
    /\ ovPc = "done"
    /\ Len(ovRet) = 2
    /\ \E a, b \in 1..2 :
          /\ a # b
          /\ ovRet[a].GEOID10 = ovTracts[i].GEOID10
          /\ ovRet[b].GEOID10 = ovTracts[j].GEOID10
          /\ ovRet[a].geometry = ovTracts[i].geometry \cap ovNbhds[1].geometry
          /\ ovRet[b].geometry = ovTracts[j].geometry \cap ovNbhds[1].geometry
          /\ Cardinality(ovRet[a].geometry) = 2
          /\ Cardinality(ovRet[b].geometry) = 2

\* C10 (as stated): given the two tracts T1 and T2 and the one neighborhood,
\* the engine produces exactly the 2 fragments.
C10_TwoTractsTwoFragments ==
    (/\ ovPc \notin {"ready", "idle"}
     /\ Len(ovTracts) = 2
     /\ IsT1T2(1, 2)
     /\ IsStraddlingNbhdLayer) => TwoFragments(1, 2)

\* C10 (amended): given T1, T2 and the one neighborhood, and a further
\* tract whose water area is the maximum and exceeds that of T1 and of T2
\* (the tract the water filter removes), the engine produces exactly the 2
\* fragments, one of T1 and one of T2, and none for the further tract.
C10_TwoSurvivingTractsTwoFragments ==
    \A i, j, w \in DOMAIN ovTracts :
        (/\ ovPc \notin {"ready", "idle"}
         /\ Len(ovTracts) = 3
         /\ i # j /\ w # i /\ w # j
         /\ IsT1T2(i, j)
         /\ ovTracts[w].AWATER10 > ovTracts[i].AWATER10
         /\ ovTracts[w].AWATER10 > ovTracts[j].AWATER10
         /\ IsStraddlingNbhdLayer) => TwoFragments(i, j)

C10_Witness ==
    /\ Len(ovTracts) = 3
    /\ IsStraddlingNbhdLayer
    /\ \E i, j, w \in DOMAIN ovTracts :
          /\ i # j /\ w # i /\ w # j
          /\ IsT1T2(i, j)
          /\ ovTracts[w].AWATER10 > ovTracts[i].AWATER10
          /\ ovTracts[w].AWATER10 > ovTracts[j].AWATER10
          /\ ovTracts[w].geometry \cap ovNbhds[1].geometry # {}
          /\ TwoFragments(i, j)

\* the tracts whose water area is the maximum over all input tracts
AtMaxWater(i) ==
    \A j \in DOMAIN ovTracts : ovTracts[j].AWATER10 <= ovTracts[i].AWATER10

\* C11: the engine removes exactly the tracts whose AWATER10 equals the
\* maximum over all input tracts, ties included, and keeps every other
\* tract in its order; no fragment is attributed to a removed tract and
\* every kept tract that shares area with a neighborhood has a fragment.
C11_RemovesExactlyMaxWater ==
    ovPc \notin {"ready", "idle"} =>
        /\ WaterFilter(ovTracts) = SelectSeq(ovTracts, LAMBDA t :
               \E j \in DOMAIN ovTracts : ovTracts[j].AWATER10 > t.AWATER10)
        /\ ovPc = "done" =>
              \A i \in DOMAIN ovTracts :
                  /\ AtMaxWater(i) => FragmentsOf(i) = {}
                  /\ (~AtMaxWater(i) /\ ovTracts[i].geometry \cap NbhdCoverage # {})
                        => FragmentsOf(i) # {}

C11_Witness ==
    /\ ovPc = "done"
    /\ \E i, j, k \in DOMAIN ovTracts :
          /\ i # j
          /\ AtMaxWater(i) /\ AtMaxWater(j)
          /\ ovTracts[i].geometry \cap NbhdCoverage # {}
          /\ ~AtMaxWater(k)
          /\ FragmentsOf(k) # {}

(***************************************************************************)
(* The consistency assertion on its own.  new_gdf holds one row per        *)
(* tract/neighborhood pair; each tract column is present twice, the _1     *)
(* copy from the tract row and the _2 copy from the joined neighborhood    *)
(* row.  To exercise the assertion the _2 copy of one column of a row may  *)
(* hold another tract's value.                                             *)
(***************************************************************************)
TractCols ==
    {"STATEFP10", "COUNTYFP10", "TRACTCE10", "GEOID10", "NAME10", "ALAND10",
     "INTPTLAT10", "INTPTLON10"}

\* a value of the column that differs from the one the tract of row i holds
OtherValue(col, i) ==
    CASE col = "STATEFP10" -> "18"
      [] col = "COUNTYFP10" -> "097"
      [] col = "TRACTCE10" -> i + 1
      [] col = "GEOID10" -> <<"17", "031", i + 1>>
      [] col = "NAME10" -> <<"Tract", i + 1>>
      [] col = "ALAND10" -> 0
      [] col = "INTPTLAT10" -> [sign |-> "+", digits |-> 42]
      [] col = "INTPTLON10" -> [sign |-> "-", digits |-> 88]

\* the row of new_gdf for tract i and one neighborhood; col names the column
\* whose _2 copy differs, "none" when the join is sound
JoinedRow(i, col) ==
    LET t == TractRow(i, Rect(0, 1, 0, 1), 0)
        n == NbhdRow(CHOOSE a \in NbhdAttrs : a.nbhd = "010", Rect(0, 1, 0, 0))
        joined == Sjoin(PrepareNbhds(<<n>>), t)[1]
        right == IF col = "none" THEN joined
                 ELSE [joined EXCEPT ![col] = OtherValue(col, i)]
    IN  Overlay(t, right)[1]

LoadJoinedRow(col) ==
    /\ asrtPc = "ready"
    /\ Len(asrtGdf) < MaxJoined
    /\ asrtGdf' = Append(asrtGdf, JoinedRow(Len(asrtGdf) + 1, col))
    /\ UNCHANGED <<asrtRet, asrtPc, exceptAsrt>>

AssertCopiesAgree ==
    /\ asrtPc = "ready"
    /\ LET r == AssertAndFinish(asrtGdf)
       IN  asrtPc' = r.pc /\ asrtRet' = r.ret
    /\ UNCHANGED <<asrtGdf, exceptAsrt>>

AsrtInit ==
    /\ TagIdle /\ HullIdle /\ OvIdle /\ FeatIdle /\ GeoIdle /\ ClIdle /\ CatIdle /\ LdIdle
    /\ asrtGdf = <<>> /\ asrtRet = <<>> /\ asrtPc = "ready"

AsrtNext ==
    \/ \E col \in TractCols \cup {"none"} : LoadJoinedRow(col)
    \/ AssertCopiesAgree

SpecAssert == AsrtInit /\ [][AsrtNext]_vars

\* the two copies of some tract-identifying attribute of the row differ
CopiesDiffer(row) ==
    \/ row.STATEFP10_1 # row.STATEFP10_2
    \/ row.COUNTYFP10_1 # row.COUNTYFP10_2
    \/ row.TRACTCE10_1 # row.TRACTCE10_2
    \/ row.GEOID10_1 # row.GEOID10_2
    \/ row.NAME10_1 # row.NAME10_2
    \/ row.ALAND10_1 # row.ALAND10_2
    \/ row.INTPTLAT10_1 # row.INTPTLAT10_2
    \/ row.INTPTLON10_1 # row.INTPTLON10_2

\* C12: if on any row the tract-side and the neighborhood-side copy of a
\* tract-identifying attribute differ, the engine raises and returns no
\* output; it returns a result (one fragment per row) only when the copies
\* agree on every row.
C12_MismatchRaises ==
    asrtPc \notin {"ready", "idle"} =>
        IF \E i \in DOMAIN asrtGdf : CopiesDiffer(asrtGdf[i])
        THEN asrtPc = "AssertionError" /\ asrtRet = <<>>
        ELSE asrtPc = "done" /\ Len(asrtRet) = Len(asrtGdf)

C12_Witness ==
    /\ asrtPc = "AssertionError"
    /\ asrtRet = <<>>
    /\ Len(asrtGdf) = 2
    /\ ~CopiesDiffer(asrtGdf[1])
    /\ asrtGdf[2].ALAND10_1 # asrtGdf[2].ALAND10_2
    /\ asrtGdf[2].GEOID10_1 = asrtGdf[2].GEOID10_2

(***************************************************************************)
(* Further claims about make_point_in_polygon_feature.                     *)
(***************************************************************************)
\* row i comes back tagged true from a call on frame against the layer
TaggedTrueAgainst(frame, zones, i) ==
    LET r == TagCore(frame, zones, TagCol)
    IN  r.pc = "done" /\ r.ret.cols[TagCol][i] = TRUE

\* C13: if the union of zone layer B is a superset of the union of zone
\* layer A, every point of the dataset tagged true against A is also tagged
\* true against B.
C13_SupersetZoneTagsSuperset ==
    tagPc \notin {"ready", "idle"} =>
        \A B \in ZoneLayers :
            UnaryUnion(tagZones) \subseteq UnaryUnion(B) =>
                \A i \in DOMAIN tagIn.index :
                    (tagPc = "done" /\ tagRet.cols[TagCol][i] = TRUE)
                        => TaggedTrueAgainst(tagIn, B, i)

\* C15: no core operation modifies the dataset object passed in by its
\* caller; here for make_point_in_polygon_feature: after the call the
\* caller's dataset has the columns and values it had before.
C15_CallerDatasetUnchanged ==
    tagPc \notin {"ready", "idle"} => tagGdf = tagIn

\* C16: whenever the tagger returns, its output holds every row of the
\* input in the same order (same labels, same geometry) and every original
\* column with unchanged values; the only difference is the membership
\* column named zone_descr.
C16_OnlyMembershipColumnDiffers ==
    tagPc = "done" =>
        /\ tagRet.index = tagIn.index
        /\ tagRet.geometry = tagIn.geometry
        /\ DOMAIN tagRet.cols = DOMAIN tagIn.cols \cup {TagCol}
        /\ \A c \in DOMAIN tagIn.cols \ {TagCol} : tagRet.cols[c] = tagIn.cols[c]

C16_Witness ==
    /\ tagPc = "done"
    /\ Len(tagIn.index) = 2
    /\ ~IsRangeIndex(tagIn)
    /\ "PIN" \in DOMAIN tagIn.cols
    /\ tagRet.cols[TagCol][1] # tagRet.cols[TagCol][2]

(***************************************************************************)
(* The feature functions of property_characteristics.py that wrap the zone *)
(* tagger.  The module imports neither os nor loaders, so a step that      *)
(* reads one of these names raises NameError.                              *)
(***************************************************************************)
QuarterMileFeet == 1320

HwyTypes == {"INTERSTATE", "ARTERIAL"}

StreetLines == {[ax |-> 0, bx |-> 1320, y |-> 0], [ax |-> 0, bx |-> 1320, y |-> 2640]}

PointCrs == {"EPSG:4326", "EPSG:3435"}

StreetCrs == {"EPSG:3435", "None"}

\* lines 1027-1029: cc_streets_gdf.loc[cc_streets_gdf["HWYTYPE"] == "INTERSTATE"]
Interstates(cc_streets_gdf) ==
    SelectSeq(cc_streets_gdf.rows, LAMBDA st : st.HWYTYPE = "INTERSTATE")

\* line 1030: every geometry of the layer replaced by its buffer
BufferedZones(rows) ==
    {[line |-> rows[i].geometry, distance |-> QuarterMileFeet] : i \in DOMAIN rows}

\* make_within_quarter_mile_of_interstate_feature(gdf_, cc_streets_gdf);
\* given is FALSE when cc_streets_gdf is left at its default None
InterstateCore(gdf_, cc_streets_gdf, given) ==
    IF ~given
    THEN [pc |-> "NameError", gdf |-> gdf_, ret |-> NoFrame]
    ELSE TagCore(gdf_, BufferedZones(Interstates(cc_streets_gdf)),
                 "within_qtr_mile_of_interstate")

MakeWithinQuarterMileOfInterstateFeature(given) ==
    /\ featPc = "ready"
    /\ LET r == InterstateCore(featGdf, featStreets, given)
       IN  /\ featPc' = r.pc
           /\ featGdf' = r.gdf
           /\ featRet' = r.ret
    /\ featOp' = IF given THEN "interstate" ELSE "interstate_default"
    /\ featIn' = featGdf
    /\ UNCHANGED <<featStreets, exceptFeat>>

\* make_fema_flood_features(gdf): the copy is made and the raw file path
\* prepared, then os.path.isfile raises NameError
MakeFemaFloodFeatures ==
    /\ featPc = "ready"
    /\ featPc' = "NameError"
    /\ featOp' = "fema"
    /\ featIn' = featGdf
    /\ UNCHANGED <<featGdf, featRet, featStreets, exceptFeat>>

\* the caller's dataset: its labels are 0..n-1, or 1..n after the first row
\* of a larger dataset was filtered out
LoadFeatPoint(p, first) ==
    /\ featPc = "ready"
    /\ Len(featGdf.index) < MaxFeatPts
    /\ IF featGdf.index = <<>> THEN TRUE ELSE first = featGdf.index[1]
    /\ LET n == Len(featGdf.index) + 1
       IN  featGdf' =
               [featGdf EXCEPT
                   !.index = [i \in 1..n |-> first + i - 1],
                   !.geometry = [i \in 1..n |-> IF i = n THEN p ELSE featGdf.geometry[i]],
                   !.cols = [c \in {"PIN"} |-> [i \in 1..n |-> i]]]
    /\ UNCHANGED <<featStreets, featOp, featIn, featRet, featPc, exceptFeat>>

StreetKey(st) ==
    <<st.geometry.y, IF st.HWYTYPE = "INTERSTATE" THEN 0 ELSE 1>>

\* the street layer is read through a filter and a union alone, which depend
\* on neither the order of its rows: it is loaded in one canonical order
LoadStreet(line, hwy) ==
    /\ featPc = "ready"
    /\ Len(featStreets.rows) < MaxStreets
    /\ LET st == [HWYTYPE |-> hwy, geometry |-> line]
       IN  /\ IF featStreets.rows = <<>> THEN TRUE
              ELSE KeyLeq(StreetKey(featStreets.rows[Len(featStreets.rows)]), StreetKey(st))
           /\ featStreets' = [featStreets EXCEPT !.rows = Append(@, st)]
    /\ UNCHANGED <<featGdf, featOp, featIn, featRet, featPc, exceptFeat>>

FeatInit ==
    /\ TagIdle /\ HullIdle /\ OvIdle /\ AsrtIdle /\ GeoIdle /\ ClIdle /\ CatIdle /\ LdIdle
    /\ \E crs \in PointCrs :
          featGdf = [index |-> <<>>, geometry |-> <<>>,
                     cols |-> [c \in {"PIN"} |-> <<>>], crs |-> crs]
    /\ \E crs \in StreetCrs : featStreets = [crs |-> crs, rows |-> <<>>]
    /\ featIn = NoFrame
    /\ featOp = "none" /\ featRet = NoFrame /\ featPc = "ready"

FeatNext ==
    \/ \E p \in FeetPoints, first \in {0, 1} : LoadFeatPoint(p, first)
    \/ \E line \in StreetLines, hwy \in HwyTypes : LoadStreet(line, hwy)
    \/ \E given \in BOOLEAN : MakeWithinQuarterMileOfInterstateFeature(given)
    \/ MakeFemaFloodFeatures

SpecFeature == FeatInit /\ [][FeatNext]_vars

(***************************************************************************)
(* Claims about the feature functions.                                     *)
(***************************************************************************)
InterstateCol == "within_qtr_mile_of_interstate"

\* C14: a membership query whose zone geometry has no CRS, or a CRS other
\* than the point dataset's, fails with an error before any membership
\* value is computed: no membership column comes from geometries in
\* differing coordinate systems.
C14_CrsMismatchFails ==
    (/\ featOp = "interstate"
     /\ featPc \notin {"ready", "idle"}
     /\ featStreets.crs # featIn.crs) =>
        /\ featPc # "done"
        /\ InterstateCol \notin DOMAIN featGdf.cols
        /\ featRet = NoFrame

\* the point lies within distance 1320 of the segment
WithinQuarterMile(p, line) ==
    LET q == NearestOnSegment(p, line)
    IN  Square(p[1] - q[1]) + Square(p[2] - q[2]) <= Square(1320)

\* C20: the call tags a point true iff it lies within distance 1320 of at
\* least one street segment whose HWYTYPE is INTERSTATE.
C20_TaggedIffNearInterstate ==
    (featOp \in {"interstate", "interstate_default"} /\ featPc \notin {"ready", "idle"}) =>
        /\ featPc = "done"
        /\ \A i \in DOMAIN featIn.index :
              featRet.cols[InterstateCol][i] =
                  (\E k \in DOMAIN featStreets.rows :
                      /\ featStreets.rows[k].HWYTYPE = "INTERSTATE"
                      /\ WithinQuarterMile(featIn.geometry[i], featStreets.rows[k].geometry))

(***************************************************************************)
(* get_cc_census_tracts_split_by_neighborhood_geodata: the clean file is   *)
(* read when it exists and no remake is forced; otherwise the tracts are   *)
(* split and the result is written to the clean file and returned.        *)
(***************************************************************************)
\* (mutation) the clean file is opened for writing before the split runs
GeodataCoreTruncateFirst(file, force_remake, tracts, nbhds) ==
    IF file.exists /\ ~force_remake
    THEN [pc |-> "done", ret |-> file.data, file |-> file]
    ELSE LET r == SplitCore(tracts, nbhds)
         IN  IF r.pc # "done"
             THEN [pc |-> r.pc, ret |-> <<>>, file |-> [exists |-> TRUE, data |-> <<>>]]
             ELSE [pc |-> "done", ret |-> r.ret, file |-> [exists |-> TRUE, data |-> r.ret]]

\* lines 508-514
GeodataCore(file, force_remake, tracts, nbhds) ==
    IF file.exists /\ ~force_remake
    THEN [pc |-> "done", ret |-> file.data, file |-> file]
    ELSE LET r == SplitCore(tracts, nbhds)
         IN  IF r.pc # "done"
             THEN [pc |-> r.pc, ret |-> <<>>, file |-> file]
             ELSE [pc |-> "done", ret |-> r.ret, file |-> [exists |-> TRUE, data |-> r.ret]]

GetCcCensusTractsSplitByNeighborhoodGeodata(force_remake) ==
    /\ ovPc = "ready"
    /\ LET r == GeodataCore(geoFile, force_remake, ovTracts, ovNbhds)
       IN  /\ ovPc' = r.pc
           /\ ovRet' = r.ret
           /\ geoFile' = r.file
    /\ geoFileBefore' = geoFile
    /\ geoForce' = force_remake
    /\ UNCHANGED <<ovTracts, ovNbhds, exceptGeo>>

\* the layers the raw files hold
GeoTractLayers ==
    {<<>>}
        \cup {<<TractRow(1, g, w)>> : g \in {Rect(0, 1, 0, 1), Rect(2, 3, 0, 1)}, w \in WaterAreas}
        \cup {<<TractRow(1, Rect(0, 1, 0, 1), w1), TractRow(2, Rect(2, 3, 0, 1), w2)>> :
                 w1 \in WaterAreas, w2 \in WaterAreas}

GeoNbhdLayers ==
    {<<>>}
        \cup {<<NbhdRow(a, g)>> :
                 a \in {b \in NbhdAttrs : b.nbhd = "010"},
                 g \in {Rect(0, 1, 0, 0), Rect(0, 3, 0, 0), Rect(4, 5, 0, 1)}}

\* what an earlier run left in the clean file
OldFragments ==
    SplitCore(<<TractRow(1, Rect(0, 1, 0, 1), 0), TractRow(2, Rect(2, 3, 0, 1), 1)>>,
              <<NbhdRow(CHOOSE a \in NbhdAttrs : a.nbhd = "020", Rect(0, 1, 0, 1))>>).ret

GeoFiles ==
    {NoFile, [exists |-> TRUE, data |-> <<>>], [exists |-> TRUE, data |-> OldFragments]}

GeoInit ==
    /\ TagIdle /\ HullIdle /\ AsrtIdle /\ FeatIdle /\ ClIdle /\ CatIdle /\ LdIdle
    /\ ovTracts \in GeoTractLayers
    /\ ovNbhds \in GeoNbhdLayers
    /\ ovRet = <<>> /\ ovPc = "ready"
    /\ geoFile \in GeoFiles
    /\ geoFileBefore = geoFile
    /\ geoForce = FALSE

GeoNext == \E force_remake \in BOOLEAN : GetCcCensusTractsSplitByNeighborhoodGeodata(force_remake)

SpecGeodata == GeoInit /\ [][GeoNext]_vars

\* the call had to split the tracts
SplitInvoked == geoForce \/ ~geoFileBefore.exists

\* C17: if the split raises, the getter returns no dataset and writes no
\* clean file: an existing clean file keeps its content; and the clean file
\* never holds anything but what it held before or the complete result.
C17_OverlayAllOrNothing ==
    ovPc \notin {"ready", "idle"} =>
        LET r == SplitCore(ovTracts, ovNbhds)
        IN  /\ (SplitInvoked /\ r.pc # "done") =>
                  /\ ovPc = r.pc
                  /\ ovRet = <<>>
                  /\ geoFile = geoFileBefore
            /\ geoFile # geoFileBefore =>
                  /\ SplitInvoked
                  /\ r.pc = "done"
                  /\ geoFile = [exists |-> TRUE, data |-> r.ret]
                  /\ ovRet = r.ret

C17_Witness ==
    /\ ovPc = "ValueError"
    /\ geoForce
    /\ geoFileBefore.exists
    /\ geoFileBefore.data # <<>>
    /\ geoFile = geoFileBefore
    /\ Len(ovTracts) = 2

(***************************************************************************)
(* clean_cc_residential_property_characteristics_data, from the fill of    *)
(* the missing coordinates on.  A record holds its PIN, its coordinates    *)
(* (a value <<v>> or None) and its O'Hare Noise label.                     *)
(***************************************************************************)
IsNull(v) == v = None

\* pd.merge(left=chars, right=locs, how="left", left_on="PIN", right_on="pin"):
\* one row per matching location, one row of nulls when there is none
MergeOne(row, locs) ==
    LET hits == SelectSeq(locs, LAMBDA l : l.pin = row.PIN)
    IN  IF hits = <<>>
        THEN <<[PIN |-> row.PIN, Latitude |-> row.Latitude, Longitude |-> row.Longitude,
                noise |-> row.noise, Floodplain |-> row.Floodplain,
                NearMajorRoad |-> row.NearMajorRoad,
                latitude |-> None, longitude |-> None, ohare_noise |-> "NA",
                floodplain |-> "NA", withinmr100 |-> "NA", withinmr101300 |-> "NA"]>>
        ELSE [k \in DOMAIN hits |->
                [PIN |-> row.PIN, Latitude |-> row.Latitude, Longitude |-> row.Longitude,
                 noise |-> row.noise, Floodplain |-> row.Floodplain,
                 NearMajorRoad |-> row.NearMajorRoad,
                 latitude |-> hits[k].latitude, longitude |-> hits[k].longitude,
                 ohare_noise |-> hits[k].ohare_noise,
                 floodplain |-> hits[k].floodplain,
                 withinmr100 |-> hits[k].withinmr100,
                 withinmr101300 |-> hits[k].withinmr101300]]

MergeLeft(df, locs) == FlattenSeq([i \in DOMAIN df |-> MergeOne(df[i], locs)])

\* a | b on nullable booleans (Kleene logic)
OrNullable(a, b) ==
    IF a = "T" \/ b = "T" THEN "T"
    ELSE IF a = "F" /\ b = "F" THEN "F"
    ELSE "NA"

\* (mutation) the location's values are taken wherever it has a coordinate
FillRowFromLocation(r) ==
    LET lon_null == IsNull(r.longitude)
        lat_null == IsNull(r.latitude)
        withinmr300 == OrNullable(r.withinmr100, r.withinmr101300)
    IN  [r EXCEPT
            !.Longitude = IF ~lon_null THEN r.longitude ELSE @,
            !.Latitude = IF ~lat_null THEN r.latitude ELSE @,
            !.noise = IF ~lon_null THEN r.ohare_noise ELSE @,
            !.Floodplain = IF ~lon_null THEN r.floodplain ELSE @,
            !.NearMajorRoad = IF ~lon_null THEN withinmr300 ELSE @]

\* lines 767-806: the five conditionally_fill_col_vals calls on the
\* coordinates, the noise label, the floodplain label and the major road
\* label
FillRow(r) ==
    LET lon_null == IsNull(r.longitude)
        Lon_null == IsNull(r.Longitude)
        lat_null == IsNull(r.latitude)
        Lat_null == IsNull(r.Latitude)
        withinmr300 == OrNullable(r.withinmr100, r.withinmr101300)
    IN  [r EXCEPT
            !.Longitude = IF ~lon_null /\ Lon_null THEN r.longitude ELSE @,
            !.Latitude = IF ~lat_null /\ Lat_null THEN r.latitude ELSE @,
            !.noise = IF ~lon_null /\ Lon_null THEN r.ohare_noise ELSE @,
            !.Floodplain = IF ~lon_null /\ Lon_null THEN r.floodplain ELSE @,
            !.NearMajorRoad = IF ~lon_null /\ Lon_null THEN withinmr300 ELSE @]

\* (mutation) a record is kept when one of its coordinates is present
KeepRowsWithAnyCoordinate(df) ==
    SelectSeq(df, LAMBDA r : ~IsNull(r.Latitude) \/ ~IsNull(r.Longitude))

\* lines 807-810: the records with both coordinates
KeepRowsWithCoordinates(df) ==
    SelectSeq(df, LAMBDA r : ~IsNull(r.Latitude) /\ ~IsNull(r.Longitude))

\* fill_latlong_missing_cc_residential_prop_char_cols
FillLatLongCore(df, locs) ==
    LET merged == MergeLeft(df, locs)
        filled == [i \in DOMAIN merged |-> FillRow(merged[i])]
    IN  KeepRowsWithCoordinates(filled)

FillLatlongMissing ==
    /\ clStage = "cleaned"
    /\ clDf' = FillLatLongCore(clDf, clLocs)
    /\ clStage' = "filled"
    /\ UNCHANGED <<clRaw, clLocs, exceptCl>>

\* make_gdf_from_latlongs: Point(Longitude, Latitude) for every record; a
\* missing coordinate cannot be converted to a float
MakeGdfFromLatlongs ==
    /\ clStage = "filled"
    /\ IF \E i \in DOMAIN clDf : IsNull(clDf[i].Latitude) \/ IsNull(clDf[i].Longitude)
       THEN clStage' = "TypeError" /\ clDf' = clDf
       ELSE /\ clStage' = "gdf"
            /\ clDf' = [i \in DOMAIN clDf |->
                   [PIN |-> clDf[i].PIN, Latitude |-> clDf[i].Latitude,
                    Longitude |-> clDf[i].Longitude, noise |-> clDf[i].noise,
                    Floodplain |-> clDf[i].Floodplain,
                    NearMajorRoad |-> clDf[i].NearMajorRoad,
                    geometry |-> <<clDf[i].Longitude[1], clDf[i].Latitude[1]>>]]
    /\ UNCHANGED <<clRaw, clLocs, exceptCl>>

\* extend_cc_residential_prop_chars_ohare_noise_zone on the geodata
ExtendNoiseZoneOfGdf ==
    /\ clStage = "gdf"
    /\ IF NoiseRows(clDf) = {}
       THEN clStage' \in EmptyUnionCrashes /\ clDf' = clDf
       ELSE /\ clStage' = "extended"
            /\ clDf' = SetNoiseTrue(clDf, NoiseZoneMask(clDf, ConvexHull(NoiseUnion(clDf))))
    /\ UNCHANGED <<clRaw, clLocs, exceptCl>>

\* make_fema_flood_features on the geodata: NameError at os.path.isfile
FloodFeaturesOfGdf ==
    /\ clStage = "extended"
    /\ clStage' = "NameError"
    /\ UNCHANGED <<clRaw, clLocs, clDf, exceptCl>>

\* the coordinates a source holds for the parcel of a PIN, present or not
CoordChoices(lat, lon) == {None, <<lat>>} \X {None, <<lon>>}

LoadClRow(c, noise, flood) ==
    /\ clStage = "cleaned"
    /\ Len(clRaw) < MaxClRows
    /\ LET r == [PIN |-> Len(clRaw) + 1, Latitude |-> c[1], Longitude |-> c[2],
                 noise |-> noise, Floodplain |-> flood, NearMajorRoad |-> "F"]
       IN  clRaw' = Append(clRaw, r) /\ clDf' = Append(clDf, r)
    /\ UNCHANGED <<clLocs, clStage, exceptCl>>

LocKey(l) ==
    <<l.pin, IF IsNull(l.latitude) THEN 0 ELSE 1, IF IsNull(l.longitude) THEN 0 ELSE 1>>

\* the locations enter the cleaner through the merge alone; they are loaded
\* in one canonical order
LoadClLoc(pin, c) ==
    /\ clStage = "cleaned"
    /\ Len(clLocs) < MaxClLocs
    /\ LET l == [pin |-> pin, latitude |-> c[1], longitude |-> c[2], ohare_noise |-> "T",
                 floodplain |-> "T", withinmr100 |-> "F", withinmr101300 |-> "T"]
       IN  /\ IF clLocs = <<>> THEN TRUE ELSE KeyLeq(LocKey(clLocs[Len(clLocs)]), LocKey(l))
           /\ clLocs' = Append(clLocs, l)
    /\ UNCHANGED <<clRaw, clDf, clStage, exceptCl>>

ClInit ==
    /\ TagIdle /\ HullIdle /\ OvIdle /\ AsrtIdle /\ FeatIdle /\ GeoIdle /\ CatIdle /\ LdIdle
    /\ clRaw = <<>> /\ clLocs = <<>> /\ clDf = <<>> /\ clStage = "cleaned"

ClNext ==
    \/ \E c \in CoordChoices(1, 0), noise \in {"T", "F"}, flood \in {"F", "NA"} :
           LoadClRow(c, noise, flood)
    \/ \E pin \in 1..MaxClRows, c \in CoordChoices(2, 1) : LoadClLoc(pin, c)
    \/ FillLatlongMissing
    \/ MakeGdfFromLatlongs
    \/ ExtendNoiseZoneOfGdf
    \/ FloodFeaturesOfGdf

SpecClean == ClInit /\ [][ClNext]_vars

SpatialStages == {"filled", "gdf", "extended", "AttributeError", "KeyError", "NameError"}

\* C18: every record that reaches a spatial operation (geometry
\* construction, noise zone extension, flood tagging) has both Latitude and
\* Longitude non-null; the geometry construction never fails on a missing
\* coordinate.
C18_SpatialRecordsHaveCoordinates ==
    /\ clStage # "TypeError"
    /\ clStage \in SpatialStages =>
          \A i \in DOMAIN clDf : clDf[i].Latitude # None /\ clDf[i].Longitude # None

C18_Witness ==
    /\ clStage = "extended"
    /\ Len(clRaw) = 2
    /\ Len(clDf) = 1
    /\ \E i \in DOMAIN clRaw :
          /\ clRaw[i].PIN = clDf[1].PIN
          /\ clRaw[i].Longitude = None
          /\ clDf[1].Longitude # None
    /\ \E i \in DOMAIN clRaw :
          /\ clRaw[i].PIN # clDf[1].PIN
          /\ clRaw[i].Latitude = None
          /\ clRaw[i].Longitude # None

(***************************************************************************)
(* The code-mapped categorical column cleaners.  A column value is <<c>>   *)
(* for the code or label c (an integer code is written as its decimal      *)
(* string), or None.                                                       *)
(***************************************************************************)
Cleaners ==
    {"arms_length", "deed_type", "wall_material", "garage_material",
     "garage_attachment", "garage_area", "multi_code"}

\* the mapping tables, as sets of <<key, label>>
MapOf(fn) ==
    CASE fn = "arms_length" -> {<<"0", "no">>, <<"1", "yes">>, <<"9", "unknown">>}
      [] fn = "deed_type" ->
            {<<"W", "Warranty">>, <<"O", "Other">>, <<"o", "Other">>,
             <<"T", "Trustee">>, <<"Y", "Trustee">>}
      [] fn = "wall_material" ->
            {<<"1", "Wood">>, <<"2", "Masonry">>, <<"3", "Wood and Masonry">>,
             <<"4", "Stucco">>}
      [] fn = "garage_material" ->
            {<<"0", "Car Port or Driveway Only">>, <<"1", "Frame">>, <<"2", "Masonry">>,
             <<"3", "Frame/Masonry">>, <<"4", "Stucco">>}
      [] fn = "garage_attachment" ->
            {<<"0", "Car Port or Driveway Only">>, <<"1", "Yes">>, <<"2", "No">>}
      [] fn = "garage_area" ->
            {<<"0", "Car Port or Driveway Only">>,
             <<"1", "Yes, garage area included in building area">>,
             <<"2", "No, garage area not included in building area">>}
      [] fn = "multi_code" ->
            {<<"2", "One building">>, <<"3", "Two buildings">>, <<"4", "Three buildings">>,
             <<"5", "Four buildings">>, <<"6", "Five buildings">>,
             <<"7", "Six buildings">>, <<"8", "Bad Value Entered">>}

\* the values a raw column can hold: the keys, a code the table lacks, null
RawValues(fn) ==
    CASE fn = "arms_length" -> {<<"0">>, <<"1">>, <<"9">>, <<"5">>, None}
      [] fn = "deed_type" -> {<<"W">>, <<"O">>, <<"o">>, <<"T">>, <<"Y">>, <<"Q">>, None}
      [] fn = "wall_material" -> {<<"1">>, <<"2">>, <<"3">>, <<"4">>, <<"7">>, None}
      [] fn = "garage_material" -> {<<"0">>, <<"1">>, <<"2">>, <<"3">>, <<"4">>, None}
      [] fn = "garage_attachment" -> {<<"0">>, <<"1">>, <<"2">>, None}
      [] fn = "garage_area" -> {<<"0">>, <<"1">>, <<"2">>, None}
      [] fn = "multi_code" -> {<<"2">>, <<"5">>, <<"7">>, <<"8">>, <<"9">>, <<"12">>, None}

\* the condition under which the cleaner applies its table
ShouldMap(fn, col) ==
    CASE fn = "arms_length" -> <<"9">> \in Range(col)
      [] fn = "deed_type" -> <<"Warranty">> \notin Range(col)
      [] fn = "wall_material" -> <<"Wood">> \notin Range(col)
      [] fn = "garage_material" -> <<"Frame">> \notin Range(col)
      [] fn = "garage_attachment" -> <<"Frame">> \notin Range(col)
      [] fn = "garage_area" -> <<"Frame">> \notin Range(col)
      [] fn = "multi_code" -> <<"One building">> \notin Range(col)

\* Series.map(dict): the label of a key, NaN for anything else
MapValue(map, v) ==
    IF v # None /\ \E kv \in map : kv[1] = v[1]
    THEN <<(CHOOSE kv \in map : kv[1] = v[1])[2]>>
    ELSE None

\* the number a raw Multi Code is written as
CodeNumber(code) ==
    CASE code = "2" -> 2 [] code = "5" -> 5 [] code = "7" -> 7 [] code = "8" -> 8
      [] code = "9" -> 9 [] code = "12" -> 12

\* property_characteristics.py lines 488-489: every Multi Code of 8 or more
\* is set to 9 before the table is applied; the other cleaners modelled
\* here have no such step
BadValuesToNine(fn, col) ==
    IF fn = "multi_code"
    THEN [i \in DOMAIN col |->
            IF col[i] # None /\ CodeNumber(col[i][1]) >= 8 THEN <<"9">> ELSE col[i]]
    ELSE col

\* the cleaner: the table is applied under the condition, then the column
\* is cast to category, which keeps every value
CleanCategoricalCore(fn, col) ==
    LET prepared == BadValuesToNine(fn, col)
    IN  IF ShouldMap(fn, prepared)
        THEN [i \in DOMAIN prepared |-> MapValue(MapOf(fn), prepared[i])]
        ELSE prepared

\* the cleaner on a column it has cleaned before: the column is categorical,
\* and the comparison >= 8 of line 488 raises TypeError on an unordered
\* categorical
RecleanCore(fn, col) ==
    IF fn = "multi_code"
    THEN [pc |-> "TypeError", ret |-> <<>>]
    ELSE [pc |-> "done", ret |-> CleanCategoricalCore(fn, col)]

CleanCategoricalCol ==
    /\ catPc = "ready"
    /\ catRet' = CleanCategoricalCore(catFn, catCol)
    /\ catPc' = "done"
    /\ UNCHANGED <<catFn, catCol, exceptCat>>

LoadCatValue(v) ==
    /\ catPc = "ready"
    /\ Len(catCol) < MaxCatRows
    /\ v \in RawValues(catFn)
    /\ catCol' = Append(catCol, v)
    /\ UNCHANGED <<catFn, catRet, catPc, exceptCat>>

CatInit ==
    /\ TagIdle /\ HullIdle /\ OvIdle /\ AsrtIdle /\ FeatIdle /\ GeoIdle /\ ClIdle /\ LdIdle
    /\ catFn \in Cleaners
    /\ catCol = <<>> /\ catRet = <<>> /\ catPc = "ready"

CatNext ==
    \/ \E v \in UNION {RawValues(fn) : fn \in Cleaners} : LoadCatValue(v)
    \/ CleanCategoricalCol

SpecCategorical == CatInit /\ [][CatNext]_vars

IsKey(fn, v) == v # None /\ \E kv \in MapOf(fn) : kv[1] = v[1]

\* C19: for every code-mapped cleaner a raw value that is not a key of the
\* mapping table becomes null and no exception is raised; every value that
\* is a key becomes its mapped label.
C19_UnmappedBecomesNull ==
    catPc \notin {"ready", "idle"} =>
        /\ catPc = "done"
        /\ Len(catRet) = Len(catCol)
        /\ \A i \in DOMAIN catCol :
              IF IsKey(catFn, catCol[i])
              THEN \E kv \in MapOf(catFn) : kv[1] = catCol[i][1] /\ catRet[i] = <<kv[2]>>
              ELSE catRet[i] = None

(***************************************************************************)
(* Further claims about the feature functions.                             *)
(***************************************************************************)
\* C21: make_fema_flood_features produces the two columns
\* FEMA_500yr_flood_risk and FEMA_floodway, each computed from the polygons
\* of its own ZONE_SUBTY alone; in particular the call returns the dataset
\* with every row and both columns.
C21_TwoFloodColumns ==
    (featOp = "fema" /\ featPc \notin {"ready", "idle"}) =>
        /\ featPc = "done"
        /\ featRet.index = featIn.index
        /\ {"FEMA_500yr_flood_risk", "FEMA_floodway"} \subseteq DOMAIN featRet.cols

(***************************************************************************)
(* Tagging a dataset that already has the membership column: the column    *)
(* holds any booleans, e.g. those of an earlier call with another zone     *)
(* layer.  Line 525 assigns the whole column before line 526 sets rows.    *)
(***************************************************************************)
PriorColumns(frame) ==
    {[frame EXCEPT !.cols =
        [c \in (DOMAIN frame.cols) \cup {TagCol} |->
            IF c = TagCol THEN prior ELSE frame.cols[c]]] :
        prior \in [DOMAIN frame.index -> BOOLEAN]}

RetagFrames ==
    UNION {PriorColumns(frame) :
        frame \in {f \in PointFrames : Len(f.index) <= MaxRetagPts}}

RetagInit ==
    /\ HullIdle /\ OvIdle /\ ExtIdle
    /\ tagGdf \in RetagFrames
    /\ tagZones \in {z \in ZoneLayers : Cardinality(z) <= MaxRetagZones}
    /\ tagIn = tagGdf
    /\ tagRet = NoFrame
    /\ tagPc = "ready"

SpecRetag == RetagInit /\ [][TagNext]_vars

\* C22: when the dataset already has the membership column, re-tagging
\* recomputes it in full: a point that was true before and does not intersect
\* the current zone ends false.
C22_StaleTrueEndsFalse ==
    tagPc # "ready" =>
        \A i \in DOMAIN tagIn.index :
            (tagIn.cols[TagCol][i] /\ ~InZoneUnion(tagIn, tagZones, i)) =>
                tagGdf.cols[TagCol][i] = FALSE

\* C23: for a dataset whose row index is not the consecutive integers 0..N-1
\* the call still completes, tags true exactly the points intersecting the
\* zone union, and adds no row.
C23_TagsIndependentOfLabels ==
    (tagPc # "ready" /\ ~IsRangeIndex(tagIn)) =>
        /\ tagPc = "done"
        /\ Len(tagRet.index) = Len(tagIn.index)
        /\ {i \in DOMAIN tagRet.index : tagRet.cols[TagCol][i]} =
               {i \in DOMAIN tagIn.index : InZoneUnion(tagIn, tagZones, i)}

(***************************************************************************)
(* Further claims about the overlay engine.                                *)
(***************************************************************************)
\* the tract of row i shares no area with any neighborhood: it intersects
\* none, or only touches
SharesNoArea(i) == ovTracts[i].geometry \cap NbhdCoverage = {}

\* C24: a tract that survives the water filter and shares no area with any
\* neighborhood contributes zero fragments, and the overlay still completes
\* and returns the fragments of all other tracts.
C24_DisjointTractContributesNothing ==
    (ovPc # "ready" /\ \E i \in DOMAIN ovTracts : SurvivesWaterFilter(i) /\ SharesNoArea(i)) =>
        /\ ovPc = "done"
        /\ \A i \in DOMAIN ovTracts :
              IF SurvivesWaterFilter(i) /\ ~SharesNoArea(i)
              THEN FragmentsOf(i) # {}
              ELSE FragmentsOf(i) = {}

(***************************************************************************)
(* Further claims about the noise zone extension.                          *)
(***************************************************************************)
\* lines 820-830 on a dataset with at least one row labelled True
ExtendCore(gdf) ==
    SetNoiseTrue(gdf, NoiseZoneMask(gdf, ConvexHull(NoiseUnion(gdf))))

\* C25: the extension never changes a true label to false or null, and
\* applying it to its own output changes no label.
C25_MonotoneIdempotent ==
    hullPc = "done" =>
        /\ \A i \in DOMAIN hullGdf : hullGdf[i].noise = "T" => hullRet[i].noise = "T"
        /\ ExtendCore(hullRet) = hullRet

C25_Witness ==
    /\ hullPc = "done"
    /\ \E i \in DOMAIN hullGdf : hullGdf[i].noise = "F" /\ hullRet[i].noise = "T"
    /\ \E i \in DOMAIN hullGdf : hullGdf[i].noise = "NA" /\ hullRet[i].noise = "NA"
    /\ \E i \in NoiseRows(hullGdf) :
          i \notin NoiseZoneMask(hullGdf, ConvexHull(NoiseUnion(hullGdf)))
    /\ ExtendCore(hullRet) = hullRet

(***************************************************************************)
(* The cached loaders.  A data portal dataset has a raw cache file and a   *)
(* clean file.  A frame is <<dataset, version>> as fetched from the portal *)
(* and <<"clean", dataset, version>> after cleaning; a parquet file holds  *)
(* the frame behind a format tag.  The program never deletes a file.       *)
(***************************************************************************)
Datasets == {"cc_real_estate_sales", "cc_residential_neighborhood_boundaries",
             "cc_chicago_building_footprints"}

\* the getter each dataset's raw loader calls
GetterOf(dataset) ==
    IF dataset = "cc_real_estate_sales"
    THEN "get_df_of_data_portal_data"
    ELSE "get_gdf_of_data_portal_data"

\* pd.read_csv(url) / gpd.read_file(url): what the portal serves now
ReadUrl(dataset, version) == <<dataset, version>>

\* df.to_parquet(path)
ToParquet(frame) == [exists |-> TRUE, data |-> <<"parquet">> \o frame]

\* pd.read_parquet(path) / gpd.read_parquet(path)
ReadParquet(file) == Tail(file.data)

\* clean_cc_real_estate_sales_data and its like, after the raw frame is read
Clean(frame) == <<"clean">> \o frame

\* (mutation) the fetched frame is returned but not written to the cache
DataPortalCoreNoWrite(file, dataset, version, force_repull, ok) ==
    IF ~file.exists \/ force_repull
    THEN IF ok
         THEN [pc |-> "done", ret |-> ReadUrl(dataset, version), file |-> file,
               fetched |-> TRUE]
         ELSE [pc |-> "URLError", ret |-> <<>>, file |-> file, fetched |-> TRUE]
    ELSE [pc |-> "done", ret |-> ReadParquet(file), file |-> file, fetched |-> FALSE]

\* utils.py lines 103-108 and 128-133; ok: the portal answers
DataPortalCore(file, dataset, version, force_repull, ok) ==
    IF ~file.exists \/ force_repull
    THEN IF ok
         THEN [pc |-> "done", ret |-> ReadUrl(dataset, version),
               file |-> ToParquet(ReadUrl(dataset, version)), fetched |-> TRUE]
         ELSE [pc |-> "URLError", ret |-> <<>>, file |-> file, fetched |-> TRUE]
    ELSE [pc |-> "done", ret |-> ReadParquet(file), file |-> file, fetched |-> FALSE]

\* (mutation) the clean file is written only when it does not exist yet
GetCleanCoreKeepFile(clean, raw, dataset, version, force_reclean, force_repull, ok) ==
    IF clean.exists /\ ~force_reclean /\ ~force_repull
    THEN [pc |-> "done", ret |-> ReadParquet(clean), clean |-> clean, raw |-> raw,
          fetched |-> FALSE, readRaw |-> FALSE, readClean |-> TRUE]
    ELSE LET r == DataPortalCore(raw, dataset, version, force_repull, ok)
         IN  IF r.pc # "done"
             THEN [pc |-> r.pc, ret |-> <<>>, clean |-> clean, raw |-> r.file,
                   fetched |-> r.fetched, readRaw |-> FALSE, readClean |-> FALSE]
             ELSE [pc |-> "done", ret |-> Clean(r.ret),
                   clean |-> IF clean.exists THEN clean ELSE ToParquet(Clean(r.ret)),
                   raw |-> r.file,
                   fetched |-> r.fetched, readRaw |-> ~r.fetched, readClean |-> FALSE]

\* utils.py lines 226-240, 285-301; loaders.py lines 26-42
GetCleanCore(clean, raw, dataset, version, force_reclean, force_repull, ok) ==
    IF clean.exists /\ ~force_reclean /\ ~force_repull
    THEN [pc |-> "done", ret |-> ReadParquet(clean), clean |-> clean, raw |-> raw,
          fetched |-> FALSE, readRaw |-> FALSE, readClean |-> TRUE]
    ELSE LET r == IF force_reclean /\ ~force_repull
                  THEN DataPortalCore(raw, dataset, version, FALSE, ok)
                  ELSE DataPortalCore(raw, dataset, version, force_repull, ok)
         IN  IF r.pc # "done"
             THEN [pc |-> r.pc, ret |-> <<>>, clean |-> clean, raw |-> r.file,
                   fetched |-> r.fetched, readRaw |-> FALSE, readClean |-> FALSE]
             ELSE [pc |-> "done", ret |-> Clean(r.ret),
                   clean |-> ToParquet(Clean(r.ret)), raw |-> r.file,
                   fetched |-> r.fetched, readRaw |-> ~r.fetched, readClean |-> FALSE]

\* a fetch completed by a getter call whose force_repull is false
CountUnforced(dataset, fetched, pc, force_repull) ==
    IF fetched /\ pc = "done" /\ ~force_repull
    THEN [ldUnforced EXCEPT ![dataset] = @ + 1]
    ELSE ldUnforced

\* get_df_of_data_portal_data / get_gdf_of_data_portal_data
GetOfDataPortalData(dataset, force_repull, ok) ==
    /\ ldPc # "idle"
    /\ ldCalls < MaxLdCalls
    /\ LET r == DataPortalCore(ldRaw[dataset], dataset, ldRemote, force_repull, ok)
       IN  /\ ldPc' = r.pc
           /\ ldRet' = r.ret
           /\ ldRaw' = [ldRaw EXCEPT ![dataset] = r.file]
           /\ ldLog' = [fn |-> GetterOf(dataset), dataset |-> dataset,
                        force_reclean |-> FALSE, force_repull |-> force_repull,
                        rawBefore |-> ldRaw[dataset], cleanBefore |-> ldClean[dataset],
                        fetched |-> r.fetched, readRaw |-> ~r.fetched,
                        readClean |-> FALSE]
           /\ ldUnforced' = CountUnforced(dataset, r.fetched, r.pc, force_repull)
    /\ ldCalls' = ldCalls + 1
    /\ UNCHANGED <<ldClean, ldRemote, exceptLd>>

\* get_clean_cc_real_estate_sales_data,
\* get_clean_cc_residential_neighborhood_geodata,
\* get_clean_building_footprint_geodata
GetClean(dataset, force_reclean, force_repull, ok) ==
    /\ ldPc # "idle"
    /\ ldCalls < MaxLdCalls
    /\ LET r == GetCleanCore(ldClean[dataset], ldRaw[dataset], dataset, ldRemote,
                             force_reclean, force_repull, ok)
       IN  /\ ldPc' = r.pc
           /\ ldRet' = r.ret
           /\ ldRaw' = [ldRaw EXCEPT ![dataset] = r.raw]
           /\ ldClean' = [ldClean EXCEPT ![dataset] = r.clean]
           /\ ldLog' = [fn |-> "get_clean", dataset |-> dataset,
                        force_reclean |-> force_reclean, force_repull |-> force_repull,
                        rawBefore |-> ldRaw[dataset], cleanBefore |-> ldClean[dataset],
                        fetched |-> r.fetched, readRaw |-> r.readRaw,
                        readClean |-> r.readClean]
           /\ ldUnforced' = CountUnforced(dataset, r.fetched, r.pc, force_repull)
    /\ ldCalls' = ldCalls + 1
    /\ UNCHANGED <<ldRemote, exceptLd>>

\* the portal publishes a new version of its data
PortalUpdates ==
    /\ ldPc # "idle"
    /\ ldRemote < MaxRemote
    /\ ldRemote' = ldRemote + 1
    /\ UNCHANGED <<ldRaw, ldClean, ldCalls, ldLog, ldUnforced, ldRet, ldPc, exceptLd>>

\* the files left by earlier runs hold an earlier version of the data
LdInit ==
    /\ TagIdle /\ HullIdle /\ OvIdle /\ AsrtIdle /\ FeatIdle /\ GeoIdle /\ ClIdle /\ CatIdle
    /\ ldRaw \in [Datasets -> {NoFile}]
                    \cup {[d \in Datasets |-> ToParquet(ReadUrl(d, 0))]}
    /\ ldClean \in [Datasets -> {NoFile}]
                    \cup {[d \in Datasets |-> ToParquet(Clean(ReadUrl(d, 0)))]}
    /\ ldRemote = 1
    /\ ldCalls = 0
    /\ ldLog = NoCall
    /\ ldUnforced = [d \in Datasets |-> 0]
    /\ ldRet = <<>>
    /\ ldPc = "ready"

LdNext ==
    \/ \E dataset \in Datasets, force_repull \in BOOLEAN, ok \in BOOLEAN :
           GetOfDataPortalData(dataset, force_repull, ok)
    \/ \E dataset \in Datasets, force_reclean \in BOOLEAN, force_repull \in BOOLEAN,
          ok \in BOOLEAN :
           GetClean(dataset, force_reclean, force_repull, ok)
    \/ PortalUpdates

SpecLoaders == LdInit /\ [][LdNext]_vars

(***************************************************************************)
(* Claims about the cached loaders.                                        *)
(***************************************************************************)
LastWasGetter ==
    ldLog.fn \in {"get_df_of_data_portal_data", "get_gdf_of_data_portal_data"}

\* C26: the getters fetch from the portal iff the raw cache file does not
\* exist or force_repull is true; otherwise they read the cache file.  After
\* a successful call the cache file exists and holds exactly the data
\* returned, and calls without force_repull fetch at most once per dataset.
C26_FetchIffMissingOrForced ==
    /\ LastWasGetter =>
          /\ ldLog.fetched <=> (~ldLog.rawBefore.exists \/ ldLog.force_repull)
          /\ ~ldLog.fetched =>
                /\ ldPc = "done"
                /\ ldLog.readRaw
                /\ ldRet = ReadParquet(ldLog.rawBefore)
          /\ ldPc = "done" =>
                /\ ldRaw[ldLog.dataset].exists
                /\ ReadParquet(ldRaw[ldLog.dataset]) = ldRet
    /\ \A d \in DOMAIN ldUnforced : ldUnforced[d] <= 1

\* a second call without force_repull is served from the cache although the
\* portal has moved on
C26_Witness ==
    /\ LastWasGetter
    /\ ldPc = "done"
    /\ ~ldLog.force_repull
    /\ ~ldLog.fetched
    /\ ldUnforced[ldLog.dataset] = 1
    /\ ldRet = ReadUrl(ldLog.dataset, 1)
    /\ ldRemote = 2

\* C27: with the clean file present and neither force flag set a get_clean_*
\* loader returns the clean file's content and touches nothing else; in every
\* other case it cleans again and overwrites the clean file with exactly the
\* dataset it returns, fetching from the portal only if force_repull is set
\* or the raw file is missing.
C27_CleanLoaderCaching ==
    ldLog.fn = "get_clean" =>
        IF ldLog.cleanBefore.exists /\ ~ldLog.force_reclean /\ ~ldLog.force_repull
        THEN /\ ldPc = "done"
             /\ ldRet = ReadParquet(ldLog.cleanBefore)
             /\ ~ldLog.readRaw /\ ~ldLog.fetched
             /\ ldClean[ldLog.dataset] = ldLog.cleanBefore
             /\ ldRaw[ldLog.dataset] = ldLog.rawBefore
        ELSE /\ ldPc = "done" =>
                   /\ ldRet = Clean(ReadParquet(ldRaw[ldLog.dataset]))
                   /\ ldClean[ldLog.dataset] = ToParquet(ldRet)
             /\ ldLog.fetched => (ldLog.force_repull \/ ~ldLog.rawBefore.exists)

\* force_reclean alone: the clean file of an older version is replaced by the
\* cleaning of the cached raw file, without a fetch
C27_Witness ==
    /\ ldLog.fn = "get_clean"
    /\ ldPc = "done"
    /\ ldLog.force_reclean /\ ~ldLog.force_repull
    /\ ldLog.cleanBefore.exists /\ ldLog.rawBefore.exists
    /\ ldClean[ldLog.dataset] # ldLog.cleanBefore
    /\ ldClean[ldLog.dataset] = ToParquet(ldRet)
    /\ ~ldLog.fetched /\ ldLog.readRaw

(***************************************************************************)
(* Further claims about the cleaning pipeline.                             *)
(***************************************************************************)
\* the record of the caller's dataset an output record stems from
RawOf(row) == clRaw[row.PIN]

\* the locations rows of a PIN, or one all-null row when it has none
LocationsOf(pin) ==
    IF \E k \in DOMAIN clLocs : clLocs[k].pin = pin
    THEN {[latitude |-> clLocs[k].latitude, longitude |-> clLocs[k].longitude] :
            k \in {j \in DOMAIN clLocs : clLocs[j].pin = pin}}
    ELSE {[latitude |-> None, longitude |-> None]}

\* the coordinate the claim lets a record end with: its own when it has one,
\* else the location's
Resolved(own, loc) == IF own # None THEN own ELSE loc

\* C28: the fill never overwrites a non-null coordinate: a record whose
\* Longitude is non-null keeps its Longitude, O'Hare Noise, Floodplain and
\* Near Major Road, a record whose Latitude is non-null keeps its Latitude,
\* and a missing coordinate is replaced by the locations value for the same
\* PIN exactly when that value is non-null.
C28_FillNeverOverwrites ==
    clStage = "filled" =>
        /\ \A i \in DOMAIN clDf :
              /\ RawOf(clDf[i]).Longitude # None =>
                    /\ clDf[i].Longitude = RawOf(clDf[i]).Longitude
                    /\ clDf[i].noise = RawOf(clDf[i]).noise
                    /\ clDf[i].Floodplain = RawOf(clDf[i]).Floodplain
                    /\ clDf[i].NearMajorRoad = RawOf(clDf[i]).NearMajorRoad
              /\ RawOf(clDf[i]).Latitude # None =>
                    clDf[i].Latitude = RawOf(clDf[i]).Latitude
        /\ \A p \in DOMAIN clRaw :
              {<<clDf[i].Latitude, clDf[i].Longitude>> :
                    i \in {j \in DOMAIN clDf : clDf[j].PIN = p}} =
              {c \in {<<Resolved(clRaw[p].Latitude, l.latitude),
                        Resolved(clRaw[p].Longitude, l.longitude)>> : l \in LocationsOf(p)} :
                    c[1] # None /\ c[2] # None}

\* one record keeps its own longitude and labels next to a location that has
\* other values and takes the location's latitude; another record takes the
\* location's longitude and labels
C28_Witness ==
    /\ clStage = "filled"
    /\ \E i \in DOMAIN clDf :
          /\ RawOf(clDf[i]).Longitude # None
          /\ RawOf(clDf[i]).Latitude = None
          /\ clDf[i].longitude # None
          /\ clDf[i].longitude # clDf[i].Longitude
          /\ clDf[i].Latitude = clDf[i].latitude
          /\ clDf[i].Floodplain # clDf[i].floodplain
    /\ \E i \in DOMAIN clDf :
          /\ RawOf(clDf[i]).Longitude = None
          /\ clDf[i].Longitude = clDf[i].longitude
          /\ clDf[i].Floodplain = "T" /\ clDf[i].NearMajorRoad = "T"

(***************************************************************************)
(* Further claims about the column cleaners.                               *)
(***************************************************************************)
\* C29: every guarded code-to-label cleaner is idempotent: applied to a
\* column it has already cleaned it returns the same labels, and no
\* already-mapped label is remapped to null.
C29_CleanersIdempotent ==
    catPc = "done" => RecleanCore(catFn, catRet) = [pc |-> "done", ret |-> catRet]

\* C30: the Multi Code cleaner maps every raw value of 8 or more to "Bad
\* Value Entered" and every value 2..7 to its building-count label; no value
\* of 8 or more ends as null.
C30_BadMultiCodesLabelled ==
    (catPc = "done" /\ catFn = "multi_code") =>
        \A i \in DOMAIN catCol :
            catCol[i] # None =>
                IF CodeNumber(catCol[i][1]) >= 8
                THEN catRet[i] = <<"Bad Value Entered">>
                ELSE <<catCol[i][1], catRet[i][1]>> \in MapOf("multi_code")

====
